---- MODULE Spec2Model ----
(***************************************************************************)
(* Health-check scheduling and execution subsystem of emma.                *)
(*                                                                         *)
(*   HealthCheckScheduler   app/services/scheduler.py                      *)
(*   ServiceManager         app/services/service_manager.py                *)
(*   Service, CheckResult   app/models/service.py                          *)
(*   get_checker            app/services/health_checks.py                  *)
(*   run_check_now (router) app/api/v1/routers/services.py                 *)
(*                                                                         *)
(* The database holds the committed rows (services, results).  Every check *)
(* execution is a coroutine with its own session: it loads a copy of the   *)
(* service row, changes the copy and writes the changed columns back when  *)
(* it commits.  Time is in whole seconds.                                  *)
(***************************************************************************)
EXTENDS Integers, Sequences, FiniteSets, TLC

\* ---- bounds of the model ----
MaxServices == 2
MaxTasks == 2
MaxLoops == 2
MaxTime == 11
MaxChecks == 2
MaxConcurrent == 1
MaxConnections == 2
MaxHistory == 3

\* ---- constants of the program ----
CheckInterval == 10
PrefilterSeconds == 1
UnhealthyThreshold == 3
UptimeHours == 24
MinInterval == 10

ServiceIds == 1..MaxServices
ConnIds == 1..MaxConnections
TaskIds == 1..MaxTasks
LoopIds == 1..MaxLoops

\* An optional value (a Python value that may be None, a config key that may
\* be absent) is a sequence of at most one element.
None == <<>>

Some(x) == <<x>>

\* last_check_at IS NULL
Null == -1

\* interval_seconds values a request can carry (ge=10)
Intervals == {MinInterval, MinInterval + 1}

\* The clock is observed at the instants k * CheckInterval and one second
\* after each of them.
NextInstant(t) ==
    IF t % CheckInterval = 0 THEN t + 1 ELSE t + CheckInterval - 1

\* ServiceType enum values, and one string that is not a member
ServiceTypes == {"http", "https", "tcp", "ssl", "dns", "docker", "ping"}
RequestedTypes == {"http", "docker", "ftp"}

\* CHECKERS registry keys
CHECKERS == {"http", "https", "tcp", "ssl", "dns", "ping"}

HasChecker(check_type) == check_type \in CHECKERS

VARIABLES
    now,        \* wall clock (seconds)
    services,   \* committed rows of table services
    results,    \* committed rows of table check_results, in commit order
    running,    \* HealthCheckScheduler._running
    task,       \* HealthCheckScheduler._task (0 = None)
    sem,        \* HealthCheckScheduler._semaphore._value
    loops,      \* the _run_loop tasks ever created
    tasks,      \* the check coroutines (_run_check / router run_check_now)
    stop_pc,    \* position of the caller inside stop()
    connections \* ConnectionManager._connections

vars ==
    <<now, services, results, running, task, sem, loops, tasks, stop_pc,
      connections>>

Min(S) == CHOOSE x \in S : \A y \in S : x <= y

\* ---- rows ----
NoService ==
    [row |-> "none", type |-> "", interval_seconds |-> 0, is_active |-> FALSE,
     status |-> "", last_check_at |-> Null, last_response_time_ms |-> Null,
     uptime_percentage |-> 0,
     consecutive_failures |-> 0]

NewService(type, interval_seconds) ==
    [row |-> "live", type |-> type, interval_seconds |-> interval_seconds,
     is_active |-> TRUE, status |-> "unknown", last_check_at |-> Null,
     last_response_time_ms |-> Null, uptime_percentage |-> 0,
     consecutive_failures |-> 0]

Live(s) == services[s].row = "live"

\* ---- coroutines ----
\* A coroutine holds: service, the Service object of its session (as loaded,
\* then as changed by _update_service_status); loaded, the column values the
\* session loaded; outcome, the checker's verdict; check_result, the
\* CheckResult it has committed.  A coroutine that calls _calculate_uptime
\* by itself holds since, the lower end of the window, and uptime, the value
\* returned.  A task of kind "check" is one call of a checker's check(): call
\* holds its arguments and check_outcome what it returned or raised.

\* The dataclass CheckResult of health_checks.py, the value check() returns.
\* raised names the exception class when check() raised instead;
\* response_time_ms is "zero" (the literal 0), "elapsed" (_measure_time) or
\* "avg" (the average ping printed).
\* checker is the class get_checker instantiated, for a call of get_checker.
NoOutcome ==
    [raised |-> None, checker |-> None, is_healthy |-> FALSE,
     response_time_ms |-> "zero", status_code |-> None, message |-> None,
     error |-> None]

\* What the libraries under a checker hand back to it: the awaited call
\* raises exc, or returns a response (status_code, text), a certificate
\* (has_cert, days until expiry), a resolved address (ip), or the exit of
\* the ping process (returncode, the average it printed).
NoProbe ==
    [kind |-> "none", exc |-> "", status_code |-> 0, text |-> <<>>,
     has_cert |-> FALSE, days |-> 0, ip |-> "", returncode |-> 0,
     avg |-> None]

\* The arguments of one call of check() (the type selects the checker, the
\* config keys are absent when None), with what the probe met: failure names
\* the network failure behind it, "" when there was none.
NoCall ==
    [check_type |-> "", target |-> <<>>, expected_status |-> None,
     expected_body |-> None, warn_days |-> None, expected_ip |-> None,
     failure |-> "", probe |-> NoProbe]

\* a row of check_results
NoCheckResult == [service_id |-> 0, is_healthy |-> FALSE, checked_at |-> Null]

IdleTask ==
    [pc |-> "idle", kind |-> "", owner |-> 0, sid |-> 0, service |-> NoService,
     loaded |-> NoService, outcome |-> "", check_result |-> NoCheckResult,
     cancel |-> FALSE, res |-> "", since |-> Null, uptime |-> 0,
     call |-> NoCall, check_outcome |-> NoOutcome]

NewTask(kind, owner, sid) ==
    [IdleTask EXCEPT !.pc = IF kind = "router" THEN "fetch" ELSE "wait",
                     !.kind = kind, !.owner = owner, !.sid = sid]

NoLoop == [pc |-> "none", cancel |-> FALSE, wake |-> 0, tick |-> ""]

FreeTasks(tk) == {t \in TaskIds : tk[t].pc = "idle"}

\* pcs at which a coroutine is inside "async with self._semaphore"
HoldingPcs == {"fetch", "check", "publish"}

Holds(t) == tasks[t].kind # "router" /\ tasks[t].pc \in HoldingPcs

InFlight(t) == tasks[t].pc \notin {"idle", "done"}

Children(l) == {t \in TaskIds : tasks[t].pc # "idle" /\ tasks[t].owner = l}

EndedLoop == [NoLoop EXCEPT !.pc = "done"]

LoopAlive(l) == loops[l].pc \in {"head", "gather", "sleep"}

\* ---- WebSocket connections and events ----
\* A connection of ConnectionManager._connections: its subscriptions and the
\* service events sent on its websocket (the welcome message is left out).
NoConnection == [state |-> "none", subscriptions |-> {}, received |-> <<>>]

NewConnection == [NoConnection EXCEPT !.state = "open"]

\* a connection that was removed from _connections (ids are not used again)
ClosedConnection == [NoConnection EXCEPT !.state = "closed"]

NoConnections == [c \in ConnIds |-> NoConnection]

\* WebSocketEvent: type and the fields of data that the checks fill
NoEvent ==
    [type |-> "", service_id |-> 0, is_healthy |-> FALSE, checked_at |-> Null,
     old_status |-> "", new_status |-> ""]

Init ==
    /\ now = 0
    /\ services = [s \in ServiceIds |-> NoService]
    /\ results = <<>>
    /\ running = FALSE
    /\ task = 0
    /\ sem = MaxConcurrent
    /\ loops = [l \in LoopIds |-> NoLoop]
    /\ tasks = [t \in TaskIds |-> IdleTask]
    /\ stop_pc = "idle"
    /\ connections = NoConnections

\* ---- the clock ----
Advance ==
    /\ NextInstant(now) <= MaxTime
    /\ now' = NextInstant(now)
    /\ UNCHANGED <<services, results, running, task, sem, loops, tasks,
                   stop_pc, connections>>

\* a day later: the clock is next observed one uptime window further on
AdvanceWindow ==
    /\ now <= MaxTime
    /\ now' = now + UptimeHours * 3600
    /\ UNCHANGED <<services, results, running, task, sem, loops, tasks,
                   stop_pc, connections>>

\* ---- ServiceManager: CRUD ----

\* create_service: the type is validated against ServiceType; the row gets
\* the column defaults (is_active = True, consecutive_failures = 0).
CreateService(type, interval_seconds) ==
    /\ type \in ServiceTypes
    /\ \E s \in ServiceIds :
        /\ services[s].row = "none"
        /\ \A r \in ServiceIds : r < s => services[r].row # "none"
        /\ services' = [services EXCEPT ![s] = NewService(type, interval_seconds)]
    /\ UNCHANGED <<now, results, running, task, sem, loops, tasks, stop_pc,
                   connections>>

\* update_service: every allowed field whose value is not None is set.
\* given = the keys of updates that carry a value (not None).
UpdatableFields == {"interval_seconds", "is_active"}

UpdatedService(svc, given, interval_seconds, is_active) ==
    [svc EXCEPT
        !.interval_seconds =
            IF "interval_seconds" \in given THEN interval_seconds ELSE @,
        !.is_active = IF "is_active" \in given THEN is_active ELSE @]

\* an update that also clears the check history of the service
UpdateServiceResettingHistory(s, given, interval_seconds, is_active) ==
    /\ Live(s)
    /\ services' = [services EXCEPT
                      ![s] = UpdatedService(@, given, interval_seconds, is_active)]
    /\ results' = SelectSeq(results, LAMBDA r : r.service_id # s)
    /\ UNCHANGED <<now, running, task, sem, loops, tasks, stop_pc, connections>>

UpdateService(s, given, interval_seconds, is_active) ==
    /\ Live(s)
    /\ services' = [services EXCEPT
                      ![s] = UpdatedService(@, given, interval_seconds, is_active)]
    /\ UNCHANGED <<now, results, running, task, sem, loops, tasks, stop_pc,
                   connections>>

\* a toggle that starts the count of failures afresh
ToggledServiceResettingFailures(svc, is_active) ==
    [svc EXCEPT !.is_active = is_active,
                !.status = IF ~is_active THEN "paused" ELSE "unknown",
                !.consecutive_failures = 0]

\* a reactivation that would leave the status as it was
ToggledServiceKeepingStatus(svc, is_active) ==
    [svc EXCEPT !.is_active = is_active,
                !.status = IF ~is_active THEN "paused" ELSE @]

\* toggle_service
ToggledService(svc, is_active) ==
    [svc EXCEPT !.is_active = is_active,
                !.status = IF ~is_active THEN "paused" ELSE "unknown"]

ToggleService(s, is_active) ==
    /\ Live(s)
    /\ services' = [services EXCEPT ![s] = ToggledService(@, is_active)]
    /\ UNCHANGED <<now, results, running, task, sem, loops, tasks, stop_pc,
                   connections>>

\* delete_service: the row goes, and its check results with it (cascade)
DeleteService(s) ==
    /\ Live(s)
    /\ services' = [services EXCEPT ![s] = [NoService EXCEPT !.row = "deleted"]]
    /\ results' = SelectSeq(results, LAMBDA r : r.service_id # s)
    /\ UNCHANGED <<now, running, task, sem, loops, tasks, stop_pc, connections>>

\* cleanup_old_results(days=30)
DefaultCleanupDays == 30

\* the days a caller passes: none (everything before now goes), the default
CleanupDays == {0, DefaultCleanupDays}

\* cleanup_old_results: the results checked before the cutoff go
CleanupOldResults(days) ==
    /\ results' = SelectSeq(results,
                            LAMBDA r : ~(r.checked_at < now - days * 24 * 3600))
    /\ UNCHANGED <<now, services, running, task, sem, loops, tasks, stop_pc,
                   connections>>

\* ---- variants of the due rule (each breaks one part of it) ----
\* the query without its "status != paused" condition
DueQueryIgnoringStatus(svc, t) ==
    /\ svc.is_active
    /\ \/ svc.last_check_at = Null
       \/ svc.last_check_at < t - PrefilterSeconds

\* the interval filter with ">" in place of ">="
DueByIntervalStrict(svc, t) ==
    \/ svc.last_check_at = Null
    \/ t > svc.last_check_at + svc.interval_seconds

\* ---- HealthCheckScheduler._get_services_due ----
\* the WHERE clause of the query
DueQuery(svc, t) ==
    /\ svc.is_active
    /\ svc.status # "paused"
    /\ \/ svc.last_check_at = Null
       \/ svc.last_check_at < t - PrefilterSeconds

\* the filter by individual interval, in Python
DueByInterval(svc, t) ==
    \/ svc.last_check_at = Null
    \/ t >= svc.last_check_at + svc.interval_seconds

GetServicesDue(t) ==
    {s \in ServiceIds :
        Live(s) /\ DueQuery(services[s], t) /\ DueByInterval(services[s], t)}

\* ---- HealthCheckScheduler: lifecycle ----
\* The application's lifespan is the only caller of start() and stop(): a
\* call is made when the previous one has returned (stop_pc = "idle").
\* A new task object: an identity not used before, or that of a task that
\* has ended and that self._task no longer refers to.
FreeLoop(l) ==
    LET unused == {k \in LoopIds : loops[k].pc = "none"}
        ended == {k \in LoopIds : loops[k].pc = "done"}
    IN IF unused # {} THEN l = Min(unused)
       ELSE ended # {} /\ l = Min(ended)

\* start() without its "if self._running: return"
StartUnguarded ==
    /\ stop_pc = "idle"
    /\ \E l \in LoopIds :
        /\ FreeLoop(l)
        /\ running' = TRUE
        /\ task' = l
        /\ loops' = [loops EXCEPT ![l] = [NoLoop EXCEPT !.pc = "head"]]
    /\ UNCHANGED <<now, services, results, sem, tasks, stop_pc, connections>>

\* start(): "if self._running: return"; else create_task(self._run_loop())
Start ==
    /\ stop_pc = "idle"
    /\ IF running
       THEN UNCHANGED <<running, task, loops>>
       ELSE \E l \in LoopIds :
            /\ FreeLoop(l)
            /\ running' = TRUE
            /\ task' = l
            /\ loops' = [loops EXCEPT ![l] = [NoLoop EXCEPT !.pc = "head"]]
    /\ UNCHANGED <<now, services, results, sem, tasks, stop_pc, connections>>

\* Task.cancel() on the poll task: a CancelledError is thrown into it at its
\* next step; a task waiting in gather() passes the request to the children
\* that are not done.
CancelLoop(lp, l) ==
    IF l # 0 /\ lp[l].pc \in {"head", "gather", "sleep"}
    THEN [lp EXCEPT ![l].cancel = TRUE]
    ELSE lp

CancelChildren(tk, l) ==
    [t \in TaskIds |->
        IF l # 0 /\ loops[l].pc = "gather" /\ tk[t].owner = l
           /\ tk[t].pc \notin {"idle", "done"}
        THEN [tk[t] EXCEPT !.cancel = TRUE]
        ELSE tk[t]]

\* stop(), up to "await self._task"
StopBegin ==
    /\ stop_pc = "idle"
    /\ IF ~running
       THEN UNCHANGED <<running, loops, tasks, stop_pc>>
       ELSE /\ running' = FALSE
            /\ loops' = CancelLoop(loops, task)
            /\ tasks' = CancelChildren(tasks, task)
            /\ stop_pc' = IF task # 0 THEN "await" ELSE "idle"
    /\ UNCHANGED <<now, services, results, task, sem, connections>>

\* a stop() that would cancel the poll task without awaiting it
StopReturnAtOnce ==
    /\ stop_pc = "await"
    /\ stop_pc' = "idle"
    /\ UNCHANGED <<now, services, results, running, task, sem, loops, tasks,
                   connections>>

\* stop(): "await self._task" returns when the poll task is done
StopReturn ==
    /\ stop_pc = "await"
    /\ loops[task].pc = "done"
    /\ stop_pc' = "idle"
    /\ UNCHANGED <<now, services, results, running, task, sem, loops, tasks,
                   connections>>

\* ---- HealthCheckScheduler: the poll loop ----
\* a poll that would dispatch only as many checks as there are free slots
DispatchWithinSlots(tk, due, l) ==
    LET free == FreeTasks(tk)
        kept == {s \in due : Cardinality({r \in due : r < s}) < sem}
        nth(t) == {s \in kept : Cardinality({r \in kept : r < s})
                                  = Cardinality({u \in free : u < t})}
    IN [t \in TaskIds |->
          IF t \in free /\ nth(t) # {}
          THEN NewTask("sched", l, Min(nth(t)))
          ELSE tk[t]]

\* tasks = [self._run_check(service.id) for service in services]
RECURSIVE Dispatch(_, _, _)
Dispatch(tk, due, l) ==
    IF due = {} THEN tk
    ELSE LET s == Min(due)
             t == Min(FreeTasks(tk))
         IN Dispatch([tk EXCEPT ![t] = NewTask("sched", l, s)], due \ {s}, l)

\* the services whose checks loop l has dispatched and is gathering
Dispatched(l) == {tasks[t].sid : t \in Children(l)}

\* Every check execution may append one CheckResult: executions are created
\* while the table has room for the results of all of them.
Room(n) ==
    Len(results) + Cardinality({t \in TaskIds : InFlight(t)}) + n <= MaxChecks

\* the results of the children that are done have been collected
ReleaseChildren(l) ==
    [t \in TaskIds |->
        IF tasks[t].owner = l /\ tasks[t].pc = "done" THEN IdleTask
        ELSE tasks[t]]

\* a poll loop that would not await its gather
GatherDoneAtOnce(l) == TRUE

\* asyncio.gather(*tasks, return_exceptions=True) is done when every child is
GatherDone(l) == \A t \in Children(l) : tasks[t].pc = "done"

\* One iteration of "while self._running": _check_services() up to the
\* gather (or to its return when nothing is due).
LoopPoll(l) ==
    /\ loops[l].pc = "head"
    /\ ~loops[l].cancel
    /\ IF ~running
       THEN /\ loops' = [loops EXCEPT ![l] = EndedLoop]
            /\ tasks' = tasks
       ELSE LET due == GetServicesDue(now)
            IN IF due = {}
               THEN /\ loops' = [loops EXCEPT ![l].pc = "sleep",
                                              ![l].wake = now + CheckInterval,
                                              ![l].tick = "ok"]
                    /\ tasks' = tasks
               ELSE /\ Cardinality(due) <= Cardinality(FreeTasks(tasks))
                    /\ Room(Cardinality(due))
                    /\ tasks' = Dispatch(tasks, due, l)
                    /\ loops' = [loops EXCEPT ![l].pc = "gather"]
    /\ UNCHANGED <<now, services, results, running, task, sem, stop_pc,
                   connections>>

\* a _run_loop without its "except Exception": the exception ends the task
LoopPollErrorEscaping(l) ==
    /\ loops[l].pc = "head"
    /\ ~loops[l].cancel
    /\ running
    /\ loops' = [loops EXCEPT ![l] = EndedLoop]
    /\ UNCHANGED <<now, services, results, running, task, sem, tasks, stop_pc,
                   connections>>

\* _check_services() raises (the session or the query fails): _run_loop
\* catches Exception, logs it and goes to sleep.
LoopPollError(l) ==
    /\ loops[l].pc = "head"
    /\ ~loops[l].cancel
    /\ running
    /\ loops' = [loops EXCEPT ![l].pc = "sleep",
                              ![l].wake = now + CheckInterval,
                              ![l].tick = "error"]
    /\ UNCHANGED <<now, services, results, running, task, sem, tasks, stop_pc,
                   connections>>

\* gather returns; _check_services returns; asyncio.sleep(check_interval)
LoopGatherReturn(l) ==
    /\ loops[l].pc = "gather"
    /\ ~loops[l].cancel
    /\ GatherDone(l)
    /\ tasks' = ReleaseChildren(l)
    /\ loops' = [loops EXCEPT ![l].pc = "sleep",
                              ![l].wake = now + CheckInterval,
                              ![l].tick = "ok"]
    /\ UNCHANGED <<now, services, results, running, task, sem, stop_pc,
                   connections>>

\* the sleep is over
LoopWake(l) ==
    /\ loops[l].pc = "sleep"
    /\ ~loops[l].cancel
    /\ now >= loops[l].wake
    /\ loops' = [loops EXCEPT ![l].pc = "head"]
    /\ UNCHANGED <<now, services, results, running, task, sem, tasks, stop_pc,
                   connections>>

\* CancelledError is thrown into the poll task: it is not an Exception, so
\* _run_loop does not catch it.  A task cancelled inside gather() ends when
\* its children have ended.
LoopCancelled(l) ==
    /\ loops[l].cancel
    /\ \/ loops[l].pc \in {"head", "sleep"}
       \/ loops[l].pc = "gather" /\ GatherDone(l)
    /\ tasks' = ReleaseChildren(l)
    /\ loops' = [loops EXCEPT ![l] = EndedLoop]
    /\ UNCHANGED <<now, services, results, running, task, sem, stop_pc,
                   connections>>

\* ---- variants of the status rule ----
\* no reset of the counter on a healthy outcome
FailuresAfterKept(service, is_healthy) ==
    IF is_healthy THEN service.consecutive_failures
    ELSE service.consecutive_failures + 1

\* "unhealthy" one failure late
StatusAfterLate(failures, is_healthy) ==
    IF is_healthy THEN "healthy"
    ELSE IF failures > UnhealthyThreshold THEN "unhealthy"
    ELSE "degraded"

\* ---- ServiceManager._calculate_uptime ----
\* Percentages are held in hundredths of a percent: round(x, 2).
\* round() of n / d to the nearest integer, a tie going to the even one
Round(n, d) ==
    LET q == n \div d
        r == n % d
    IN IF 2 * r > d \/ (2 * r = d /\ q % 2 = 1) THEN q + 1 ELSE q

\* the rows the query selects: service_id = s and checked_at >= since
InWindow(rs, s, t) ==
    SelectSeq(rs, LAMBDA r : r.service_id = s
                             /\ r.checked_at >= t - UptimeHours * 3600)

\* an uptime that would read "no data" as full health
CalculateUptimeEmptyIsFull(rs, s, t) ==
    LET window == InWindow(rs, s, t)
        total == Len(window)
        healthy == Len(SelectSeq(window, LAMBDA r : r.is_healthy))
    IN Round(IF total = 0 THEN 100 * 100 ELSE healthy * 100 * 100,
             IF total = 0 THEN 1 ELSE total)

\* rs: the rows of check_results the session sees at time t
CalculateUptime(rs, s, t) ==
    LET window == InWindow(rs, s, t)
        total == Len(window)
        healthy == Len(SelectSeq(window, LAMBDA r : r.is_healthy))
    IN IF total = 0 THEN 0 ELSE Round(healthy * 100 * 100, total)

\* an uptime computation that would also prune the rows outside its window
CalculateUptimeCallPruning(s) ==
    /\ Live(s)
    /\ FreeTasks(tasks) # {}
    /\ tasks' = [tasks EXCEPT
                    ![Min(FreeTasks(tasks))] =
                        [IdleTask EXCEPT
                            !.pc = "done", !.kind = "uptime", !.sid = s,
                            !.since = now - UptimeHours * 3600,
                            !.uptime = CalculateUptime(results, s, now)]]
    /\ results' = SelectSeq(results,
                            LAMBDA r : r.service_id # s
                                       \/ r.checked_at
                                              >= now - UptimeHours * 3600)
    /\ UNCHANGED <<now, services, running, task, sem, loops, stop_pc,
                   connections>>

\* a call of _calculate_uptime(service_id) in a session with nothing pending
CalculateUptimeCall(s) ==
    /\ Live(s)
    /\ FreeTasks(tasks) # {}
    /\ tasks' = [tasks EXCEPT
                    ![Min(FreeTasks(tasks))] =
                        [IdleTask EXCEPT
                            !.pc = "done", !.kind = "uptime", !.sid = s,
                            !.since = now - UptimeHours * 3600,
                            !.uptime = CalculateUptime(results, s, now)]]
    /\ UNCHANGED <<now, services, results, running, task, sem, loops, stop_pc,
                   connections>>

\* the caller has used the value
UptimeReturn(t) ==
    /\ tasks[t].kind = "uptime"
    /\ tasks[t].pc = "done"
    /\ tasks' = [tasks EXCEPT ![t] = IdleTask]
    /\ UNCHANGED <<now, services, results, running, task, sem, loops, stop_pc,
                   connections>>

\* ---- ServiceManager._update_service_status ----
FailuresAfter(service, is_healthy) ==
    IF is_healthy THEN 0 ELSE service.consecutive_failures + 1

StatusAfter(failures, is_healthy) ==
    IF is_healthy THEN "healthy"
    ELSE IF failures >= UnhealthyThreshold THEN "unhealthy"
    ELSE "degraded"

\* result.response_time_ms: the time a checker measured, one value for all
Elapsed == 0

UpdateServiceStatus(service, is_healthy, t, uptime) ==
    [service EXCEPT
        !.last_check_at = t,
        !.last_response_time_ms = Elapsed,
        !.uptime_percentage = uptime,
        !.consecutive_failures = FailuresAfter(service, is_healthy),
        !.status = StatusAfter(FailuresAfter(service, is_healthy), is_healthy)]

\* a semaphore that never blocks
SemaphoreNeverLocked == FALSE

\* ---- one check execution ----
\* Semaphore.locked()
SemaphoreLocked == sem = 0

\* a manual trigger that would tell its caller nothing
EndedSilently(t, res) ==
    [tasks EXCEPT ![t] =
        IF @.owner = 0 THEN IdleTask
        ELSE [IdleTask EXCEPT !.pc = "done", !.kind = tasks[t].kind,
                              !.owner = tasks[t].owner, !.sid = tasks[t].sid,
                              !.res = res]]

\* The coroutine ends with outcome res.  "async with self._semaphore" gives
\* the slot back on every exit; the session is closed, which rolls back what
\* was not committed.  A check run through the scheduler's run_check_now is
\* awaited by nobody that looks at it: its coroutine is gone once it has
\* ended.  The router's request ends with a response: the CheckResult
\* (res = "ok"), 404 ("notfound"), 400 ("inactive") or the exception.
Ended(t, res) ==
    [tasks EXCEPT ![t] =
        IF @.owner = 0 /\ @.kind # "router" THEN IdleTask
        ELSE [IdleTask EXCEPT !.pc = "done", !.kind = tasks[t].kind,
                              !.owner = tasks[t].owner, !.sid = tasks[t].sid,
                              !.res = res,
                              !.outcome = IF tasks[t].kind = "router"
                                          THEN tasks[t].outcome ELSE ""]]

\* a slot that is not given back when the coroutine ends
SemNotReleased(t) == sem

\* a slot given back only at the end of a check that committed
SemReleasedAfterPublishOnly(t) ==
    IF Holds(t) /\ tasks[t].pc = "publish" THEN sem + 1 ELSE sem

SemAfterEnd(t) == IF Holds(t) THEN sem + 1 ELSE sem

\* HealthCheckScheduler.run_check_now(service_id): _run_check, awaited by its
\* caller only
SchedulerRunCheckNow(s) ==
    /\ Room(1)
    /\ FreeTasks(tasks) # {}
    /\ tasks' = [tasks EXCEPT ![Min(FreeTasks(tasks))] = NewTask("manual", 0, s)]
    /\ UNCHANGED <<now, services, results, running, task, sem, loops, stop_pc,
                   connections>>

\* POST /services/{id}/check: the router runs execute_check in the request's
\* session, without the scheduler
RouterRunCheckNow(s) ==
    /\ Room(1)
    /\ FreeTasks(tasks) # {}
    /\ tasks' = [tasks EXCEPT ![Min(FreeTasks(tasks))] = NewTask("router", 0, s)]
    /\ UNCHANGED <<now, services, results, running, task, sem, loops, stop_pc,
                   connections>>

\* the response of the router's run_check_now has been sent
RouterRespond(t) ==
    /\ tasks[t].kind = "router"
    /\ tasks[t].pc = "done"
    /\ tasks' = [tasks EXCEPT ![t] = IdleTask]
    /\ UNCHANGED <<now, services, results, running, task, sem, loops, stop_pc,
                   connections>>

\* "async with self._semaphore": acquire
Acquire(t) ==
    /\ tasks[t].pc = "wait"
    /\ ~tasks[t].cancel
    /\ ~SemaphoreLocked
    /\ sem' = sem - 1
    /\ tasks' = [tasks EXCEPT ![t].pc = "fetch"]
    /\ UNCHANGED <<now, services, results, running, task, loops, stop_pc,
                   connections>>

\* an execution phase that would trust the poll: no test of is_active
FetchIgnoringActive(t) ==
    /\ tasks[t].pc = "fetch"
    /\ ~tasks[t].cancel
    /\ LET s == tasks[t].sid
       IN IF services[s].row = "live"
          THEN /\ tasks' = [tasks EXCEPT ![t].pc = "check",
                                         ![t].service = services[s],
                                         ![t].loaded = services[s]]
               /\ sem' = sem
          ELSE /\ tasks' = Ended(t, "notfound")
               /\ sem' = IF Holds(t) THEN sem + 1 ELSE sem
    /\ UNCHANGED <<now, services, results, running, task, loops, stop_pc,
                   connections>>

\* service = await session.get(Service, service_id);
\* "if service and service.is_active" (the router: 404 / 400 instead)
Fetch(t) ==
    /\ tasks[t].pc = "fetch"
    /\ ~tasks[t].cancel
    /\ LET s == tasks[t].sid
       IN IF Live(s) /\ services[s].is_active
          THEN /\ tasks' = [tasks EXCEPT ![t].pc = "check",
                                         ![t].service = services[s],
                                         ![t].loaded = services[s]]
               /\ sem' = sem
          ELSE /\ tasks' = Ended(t, IF Live(s) THEN "inactive" ELSE "notfound")
               /\ sem' = SemAfterEnd(t)
    /\ UNCHANGED <<now, services, results, running, task, loops, stop_pc,
                   connections>>

\* The UPDATE carries the columns whose value differs from the loaded one.
Written(row, loaded, new) ==
    [row EXCEPT
        !.status = IF new.status # loaded.status THEN new.status ELSE @,
        !.last_check_at =
            IF new.last_check_at # loaded.last_check_at
            THEN new.last_check_at ELSE @,
        !.last_response_time_ms =
            IF new.last_response_time_ms # loaded.last_response_time_ms
            THEN new.last_response_time_ms ELSE @,
        !.uptime_percentage =
            IF new.uptime_percentage # loaded.uptime_percentage
            THEN new.uptime_percentage ELSE @,
        !.consecutive_failures =
            IF new.consecutive_failures # loaded.consecutive_failures
            THEN new.consecutive_failures ELSE @]

\* CheckResultModel(service_id, is_healthy, ...); checked_at defaults to the
\* time of the INSERT
NewCheckResult(s, is_healthy, t) ==
    [service_id |-> s, is_healthy |-> is_healthy, checked_at |-> t]

\* an uptime query that would not see the session's own pending CheckResult
VisibleResultsCommitted(check_result) == results

\* The uptime query runs in the session of the check: the session flushes
\* its pending CheckResult before the SELECT, which so counts it together
\* with the committed rows.
VisibleResults(check_result) == Append(results, check_result)

Outcome(is_healthy) == IF is_healthy THEN "healthy" ELSE "unhealthy"

\* an execute_check whose flush and commit succeed although the row of its
\* service is gone
ExecuteCheckOnDeletedRow(t, is_healthy) ==
    /\ tasks[t].pc = "check"
    /\ ~tasks[t].cancel
    /\ HasChecker(tasks[t].service.type)
    /\ LET check_result == NewCheckResult(tasks[t].sid, is_healthy, now)
           uptime == CalculateUptime(VisibleResults(check_result),
                                     tasks[t].sid, now)
           updated == UpdateServiceStatus(tasks[t].service, is_healthy, now,
                                          uptime)
       IN /\ services' = [services EXCEPT ![tasks[t].sid] =
                             Written(@, tasks[t].loaded, updated)]
          /\ tasks' = [tasks EXCEPT ![t].pc = "publish",
                                    ![t].service = updated,
                                    ![t].outcome = Outcome(is_healthy),
                                    ![t].check_result = check_result]
          /\ results' = Append(results, check_result)
    /\ UNCHANGED <<now, running, task, sem, loops, stop_pc, connections>>

\* execute_check up to its commit: get_checker found a checker, the checker
\* returned its outcome, the CheckResult was added,
\* _update_service_status changed the session's Service object, and the
\* commit wrote both.
ExecuteCheck(t, is_healthy) ==
    /\ tasks[t].pc = "check"
    /\ ~tasks[t].cancel
    /\ HasChecker(tasks[t].service.type)
    /\ Live(tasks[t].sid)
    /\ LET check_result == NewCheckResult(tasks[t].sid, is_healthy, now)
           uptime == CalculateUptime(VisibleResults(check_result),
                                     tasks[t].sid, now)
           updated == UpdateServiceStatus(tasks[t].service, is_healthy, now,
                                          uptime)
       IN /\ services' = [services EXCEPT ![tasks[t].sid] =
                             Written(@, tasks[t].loaded, updated)]
          /\ tasks' = [tasks EXCEPT ![t].pc = "publish",
                                    ![t].service = updated,
                                    ![t].outcome = Outcome(is_healthy),
                                    ![t].check_result = check_result]
          /\ results' = Append(results, check_result)
    /\ UNCHANGED <<now, running, task, sem, loops, stop_pc, connections>>

\* a _run_check without its "except Exception", under a gather without
\* return_exceptions: the exception reaches _check_services, which raises
\* into _run_loop while the other children go on unawaited
ExecuteCheckRaisesEscaping(t) ==
    /\ tasks[t].pc = "check"
    /\ ~tasks[t].cancel
    /\ tasks' = [tasks EXCEPT ![t] = IdleTask]
    /\ sem' = IF Holds(t) THEN sem + 1 ELSE sem
    /\ loops' = [l \in LoopIds |->
                    IF l = tasks[t].owner /\ loops[l].pc = "gather"
                    THEN [loops[l] EXCEPT !.pc = "sleep",
                                          !.wake = now + CheckInterval,
                                          !.tick = "error"]
                    ELSE loops[l]]
    /\ UNCHANGED <<now, services, results, running, task, stop_pc, connections>>

\* a failing check that would leave half of its work behind: last_check_at
\* is saved although the CheckResult is not
ExecuteCheckRaisesHalfSaved(t) ==
    /\ tasks[t].pc = "check"
    /\ ~tasks[t].cancel
    /\ services' = [services EXCEPT ![tasks[t].sid].last_check_at = now]
    /\ tasks' = Ended(t, "raised")
    /\ sem' = IF Holds(t) THEN sem + 1 ELSE sem
    /\ UNCHANGED <<now, results, running, task, loops, stop_pc, connections>>

\* an execute_check that would broadcast check_completed before its commit,
\* which then fails
ExecuteCheckRaisesAfterBroadcast(t) ==
    /\ tasks[t].pc = "check"
    /\ ~tasks[t].cancel
    /\ tasks' = Ended(t, "raised")
    /\ sem' = IF Holds(t) THEN sem + 1 ELSE sem
    /\ connections' =
          [c \in ConnIds |->
              IF connections[c].state = "open"
                 /\ "services" \in connections[c].subscriptions
              THEN [connections[c] EXCEPT
                      !.received =
                          Append(@, [type |-> "service.check_completed",
                                     service_id |-> tasks[t].sid,
                                     is_healthy |-> FALSE,
                                     checked_at |-> now,
                                     old_status |-> "", new_status |-> ""])]
              ELSE connections[c]]
    /\ UNCHANGED <<now, services, results, running, task, loops, stop_pc>>

\* execute_check raises before its commit took effect: get_checker raises
\* ValueError for a type without checker, the checker itself raises, or the
\* flush or the commit fails (the repository is unavailable, the row is
\* gone).  Closing the session rolls back.  _run_check catches the exception
\* and logs it; the router lets it through to its caller.
ExecuteCheckRaises(t) ==
    /\ tasks[t].pc = "check"
    /\ ~tasks[t].cancel
    /\ tasks' = Ended(t, "raised")
    /\ sem' = SemAfterEnd(t)
    /\ UNCHANGED <<now, services, results, running, task, loops, stop_pc,
                   connections>>

\* ---- the broadcasts of execute_check ----
\* broadcast_check_result(service.id, {...})
CheckCompletedEvent(check_result) ==
    [NoEvent EXCEPT !.type = "service.check_completed",
                    !.service_id = check_result.service_id,
                    !.is_healthy = check_result.is_healthy,
                    !.checked_at = check_result.checked_at]

\* broadcast_service_event(SERVICE_STATUS_CHANGED, {...})
StatusChangedEvent(s, old_status, new_status) ==
    [NoEvent EXCEPT !.type = "service.status_changed", !.service_id = s,
                    !.old_status = old_status, !.new_status = new_status]

\* the connections a broadcast on channel "services" sends to
Subscribers(conns) ==
    {c \in ConnIds : conns[c].state = "open"
                      /\ "services" \in conns[c].subscriptions}

\* a broadcast that would give up at the first send that fails: the
\* connections after that one get nothing
BroadcastStoppingAtFailure(conns, event, failing) ==
    [c \in ConnIds |->
        IF c \in Subscribers(conns)
        THEN IF c \in failing THEN ClosedConnection
             ELSE IF \A f \in failing : c < f
             THEN [conns[c] EXCEPT !.received = Append(@, event)]
             ELSE conns[c]
        ELSE conns[c]]

\* ConnectionManager.broadcast(event, channel="services"): the event is sent
\* to every subscribed connection; a connection whose send raises (failing)
\* is logged and disconnected, and the loop goes on with the next one.
Broadcast(conns, event, failing) ==
    [c \in ConnIds |->
        IF c \in Subscribers(conns)
        THEN IF c \in failing THEN ClosedConnection
             ELSE [conns[c] EXCEPT !.received = Append(@, event)]
        ELSE conns[c]]

\* old_status != new_status, as execute_check read them around
\* _update_service_status
StatusChanged(t) == tasks[t].loaded.status # tasks[t].service.status

\* the events execute_check broadcasts, in their order
EventsOf(t) ==
    <<CheckCompletedEvent(tasks[t].check_result)>>
    \o (IF StatusChanged(t)
        THEN <<StatusChangedEvent(tasks[t].sid, tasks[t].loaded.status,
                                  tasks[t].service.status)>>
        ELSE <<>>)

\* ---- WebSocket clients ----
\* ConnectionManager.connect
Connect(c) ==
    /\ connections[c].state = "none"
    /\ connections' = [connections EXCEPT ![c] = NewConnection]
    /\ UNCHANGED <<now, services, results, running, task, sem, loops, tasks,
                   stop_pc>>

\* ConnectionManager.subscribe(connection_id, "services")
Subscribe(c) ==
    /\ connections[c].state = "open"
    /\ connections' = [connections EXCEPT
                          ![c].subscriptions = @ \cup {"services"}]
    /\ UNCHANGED <<now, services, results, running, task, sem, loops, tasks,
                   stop_pc>>

\* execute_check after its commit: check_completed is broadcast, then
\* status_changed if the status changed; execute_check returns and the
\* coroutine ends.  failing1, failing2: the connections whose send fails.
Publish(t) ==
    /\ tasks[t].pc = "publish"
    /\ ~tasks[t].cancel
    /\ \E failing1 \in SUBSET Subscribers(connections) :
          LET sent == Broadcast(connections,
                                CheckCompletedEvent(tasks[t].check_result),
                                failing1)
          IN IF StatusChanged(t)
             THEN \E failing2 \in SUBSET Subscribers(sent) :
                     connections' =
                         Broadcast(sent,
                                   StatusChangedEvent(tasks[t].sid,
                                                      tasks[t].loaded.status,
                                                      tasks[t].service.status),
                                   failing2)
             ELSE connections' = sent
    /\ tasks' = Ended(t, "ok")
    /\ sem' = SemAfterEnd(t)
    /\ UNCHANGED <<now, services, results, running, task, loops, stop_pc>>

\* CancelledError is thrown into the coroutine where it waits
CheckCancelled(t) ==
    /\ tasks[t].cancel
    /\ tasks[t].pc \in {"wait"} \cup HoldingPcs
    /\ tasks' = Ended(t, "cancelled")
    /\ sem' = SemAfterEnd(t)
    /\ UNCHANGED <<now, services, results, running, task, loops, stop_pc,
                   connections>>

\* the steps of the check executions
CheckStep ==
    \/ \E t \in TaskIds : Acquire(t)
    \/ \E t \in TaskIds : Fetch(t)
    \/ \E t \in TaskIds, h \in BOOLEAN : ExecuteCheck(t, h)
    \/ \E t \in TaskIds : ExecuteCheckRaises(t)
    \/ \E t \in TaskIds : Publish(t)

\* the steps of the scheduler: its lifecycle, its poll loop, its checks
SchedulerStep ==
    \/ Start
    \/ StopBegin
    \/ StopReturn
    \/ \E l \in LoopIds : LoopPoll(l)
    \/ \E l \in LoopIds : LoopPollError(l)
    \/ \E l \in LoopIds : LoopGatherReturn(l)
    \/ \E l \in LoopIds : LoopWake(l)
    \/ \E l \in LoopIds : LoopCancelled(l)
    \/ \E t \in TaskIds : CheckCancelled(t)
    \/ CheckStep

\* ---- Spec: the scheduler at work ----
\* Services are created (of a type with a checker, of a type without, of an
\* invalid type), the scheduler is started and stopped, checks are triggered
\* through the scheduler.
Next ==
    \/ Advance
    \/ \E type \in RequestedTypes : CreateService(type, MinInterval)
    \/ \E s \in ServiceIds : SchedulerRunCheckNow(s)
    \/ SchedulerStep

Spec == Init /\ [][Next]_vars

\* ---- SpecConfig: the operator reconfigures services under the scheduler ----
NextConfig ==
    \/ Advance
    \/ CreateService("http", MinInterval)
    \/ \E s \in ServiceIds, a \in BOOLEAN :
          UpdateService(s, {"is_active"}, MinInterval, a)
    \/ \E s \in ServiceIds, a \in BOOLEAN : ToggleService(s, a)
    \/ SchedulerStep

SpecConfig == Init /\ [][NextConfig]_vars

\* ---- SpecStatus: check outcomes applied to every prior service state ----
MaxFailures == 3

ServiceStatuses == {"unknown", "healthy", "unhealthy", "degraded", "paused"}

\* an active service in any status, with any count of failures
PriorStates ==
    {[NewService("http", MinInterval) EXCEPT
         !.status = st, !.consecutive_failures = f, !.last_check_at = lc,
         !.last_response_time_ms = IF lc = Null THEN Null ELSE Elapsed] :
       st \in ServiceStatuses, f \in 0..MaxFailures, lc \in {Null, 0}}

InitStatus ==
    /\ now = 1
    /\ \E prior \in PriorStates :
          services = [s \in ServiceIds |-> IF s = 1 THEN prior ELSE NoService]
    /\ results = <<>>
    /\ running = FALSE
    /\ task = 0
    /\ sem = MaxConcurrent
    /\ loops = [l \in LoopIds |-> NoLoop]
    /\ tasks = [t \in TaskIds |-> IdleTask]
    /\ stop_pc = "idle"
    /\ connections = NoConnections

NextStatus ==
    \/ \E s \in ServiceIds : SchedulerRunCheckNow(s)
    \/ CheckStep

SpecStatus == InitStatus /\ [][NextStatus]_vars

\* ---- SpecDue: one poll loop over every state of a service row ----
\* Service 1 is in any state the operations above can leave it in when its
\* last check, if any, was healthy; service 2 was just created.
DueRows(t) ==
    {[NewService("http", i) EXCEPT
         !.is_active = a, !.status = st, !.last_check_at = lc,
         !.last_response_time_ms = IF lc = Null THEN Null ELSE Elapsed] :
       i \in Intervals, a \in BOOLEAN, st \in {"unknown", "healthy", "paused"},
       lc \in {Null} \cup 0..t}

InitDue ==
    /\ now \in 0..MaxTime
    /\ \E row \in DueRows(now) :
          services = [s \in ServiceIds |->
                         IF s = 1 THEN row
                         ELSE IF s = 2 THEN NewService("http", MinInterval)
                         ELSE NoService]
    /\ results = <<>>
    /\ running = TRUE
    /\ task = 1
    /\ sem = MaxConcurrent
    /\ loops = [l \in LoopIds |->
                   IF l = 1 THEN [NoLoop EXCEPT !.pc = "head"] ELSE NoLoop]
    /\ tasks = [t \in TaskIds |-> IdleTask]
    /\ stop_pc = "idle"
    /\ connections = NoConnections

NextDue ==
    \/ Advance
    \/ \E l \in LoopIds : LoopPoll(l)
    \/ \E l \in LoopIds : LoopPollError(l)
    \/ \E l \in LoopIds : LoopGatherReturn(l)
    \/ \E l \in LoopIds : LoopWake(l)
    \/ CheckStep

SpecDue == InitDue /\ [][NextDue]_vars

\* ======================= properties =======================

\* C1: in every reachable state the number of check executions inside
\* _run_check between the acquire and the release of a slot is at most
\* max_concurrent_checks, however many services are due and however their
\* completions interleave.
InProgressWithinCapacity ==
    Cardinality({t \in TaskIds : Holds(t)}) <= MaxConcurrent

\* C1, reached: every slot is taken and a check dispatched by the same tick
\* waits for one.
SlotsTakenAndOneWaiting ==
    \E t, u \in TaskIds :
        /\ Holds(t)
        /\ sem = 0
        /\ tasks[u].pc = "wait"
        /\ tasks[u].owner # 0
        /\ tasks[u].owner = tasks[t].owner

\* C2: under start() and stop() calls made one after the other, at most one
\* poll loop is alive at any time, and from a running scheduler no step
\* (start() included) creates a poll task or changes self._task.
AtMostOnePollLoop ==
    /\ [](Cardinality({l \in LoopIds : LoopAlive(l)}) <= 1)
    /\ [][running =>
            /\ \A l \in LoopIds : LoopAlive(l)' => LoopAlive(l)
            /\ running' => task' = task]_vars

\* C2, reached: stop() has returned, start() was called again, and the second
\* poll task is the only one alive.
RestartedWithOneLoop ==
    /\ running
    /\ stop_pc = "idle"
    /\ loops[1].pc = "done"
    /\ task = 2
    /\ LoopAlive(2)

\* C3: whatever the prior status and consecutive_failures, a check whose
\* outcome is healthy leaves the Service object with consecutive_failures = 0
\* and status = healthy, and that is what its commit writes over the row it
\* loaded.
HealthyOutcomeResets ==
    [][\A t \in TaskIds :
         (tasks[t].pc = "check" /\ tasks'[t].pc = "publish"
            /\ tasks'[t].outcome = "healthy") =>
           /\ tasks'[t].service.consecutive_failures = 0
           /\ tasks'[t].service.status = "healthy"
           /\ services[tasks[t].sid] = tasks[t].loaded =>
                /\ services'[tasks[t].sid].consecutive_failures = 0
                /\ services'[tasks[t].sid].status = "healthy"]_vars

\* C3, reached: a healthy outcome was applied to a service that was unhealthy
\* with the largest count of failures.
HealthyAfterFailures ==
    \E t \in TaskIds :
        /\ tasks[t].pc = "publish"
        /\ tasks[t].outcome = "healthy"
        /\ tasks[t].loaded.status = "unhealthy"
        /\ tasks[t].loaded.consecutive_failures = MaxFailures
        /\ services[tasks[t].sid].consecutive_failures = 0

\* C4: whatever the prior state, a check whose outcome is not healthy raises
\* consecutive_failures by exactly 1, and the status becomes degraded when
\* the new count is 1 or 2 and unhealthy when it is 3 or more.
UnhealthyOutcomeCounts ==
    [][\A t \in TaskIds :
         (tasks[t].pc = "check" /\ tasks'[t].pc = "publish"
            /\ tasks'[t].outcome = "unhealthy") =>
           LET count == tasks'[t].service.consecutive_failures
           IN /\ count = tasks[t].service.consecutive_failures + 1
              /\ count \in {1, 2} => tasks'[t].service.status = "degraded"
              /\ count >= 3 => tasks'[t].service.status = "unhealthy"
              /\ services[tasks[t].sid] = tasks[t].loaded =>
                   /\ services'[tasks[t].sid].consecutive_failures = count
                   /\ services'[tasks[t].sid].status =
                        tasks'[t].service.status]_vars

\* C4, reached: the third failure in a row of a service that was degraded
\* made it unhealthy.
ThirdFailureMakesUnhealthy ==
    \E t \in TaskIds :
        /\ tasks[t].pc = "publish"
        /\ tasks[t].outcome = "unhealthy"
        /\ tasks[t].loaded.status = "degraded"
        /\ tasks[t].loaded.consecutive_failures = 2
        /\ tasks[t].service.consecutive_failures = 3
        /\ services[tasks[t].sid].status = "unhealthy"

\* C5: in every state reached by create_service, update_service,
\* toggle_service and completed checks, a service has status = paused if and
\* only if is_active is false.
PausedIffInactive ==
    \A s \in ServiceIds :
        Live(s) => (services[s].status = "paused" <=> ~services[s].is_active)

\* C6: a service whose is_active is false, or whose status is paused, is in
\* no due set a poll computes and no poll dispatches a check for it, whatever
\* its last_check_at and its interval.
InactiveOrPausedNeverDue ==
    /\ [](\A s \in GetServicesDue(now) :
             services[s].is_active /\ services[s].status # "paused")
    /\ [][\A l \in LoopIds :
            (loops[l].pc = "head" /\ loops'[l].pc = "gather") =>
              \A t \in TaskIds :
                  (tasks'[t].owner = l /\ tasks'[t].pc # "idle") =>
                    /\ services[tasks'[t].sid].is_active
                    /\ services[tasks'[t].sid].status # "paused"]_vars

\* C6, reached: the poll dispatched the check of service 2 and none for
\* service 1, which was never checked, is active and has status paused.
PausedServiceLeftOut ==
    /\ loops[1].pc = "gather"
    /\ \E t \in TaskIds : tasks[t].owner = 1 /\ tasks[t].sid = 2
    /\ \A t \in TaskIds : tasks[t].sid # 1
    /\ results = <<>>
    /\ services[1].is_active
    /\ services[1].status = "paused"
    /\ services[1].last_check_at = Null

RaiseEndsOnlyItsCheck ==
    /\ [](\A t \in TaskIds :
             tasks[t].res = "raised" =>
               loops[tasks[t].owner].pc = "gather")
    /\ [][\A t \in TaskIds :
            (tasks[t].pc = "check" /\ tasks[t].owner # 0 /\ ~tasks[t].cancel
               /\ tasks'[t].pc \notin {"check", "publish"}) =>
              /\ tasks'[t].pc = "done"
              /\ tasks'[t].res = "raised"
              /\ sem' = sem + 1
              /\ loops' = loops
              /\ results' = results
              /\ services' = services
              /\ \A u \in TaskIds \ {t} : tasks'[u] = tasks[u]]_vars

\* C8, reached: the check of one service raised, and after it the check of
\* another service of the same tick took the slot and committed its result.
SiblingCommittedAfterRaise ==
    \E t, u \in TaskIds :
        /\ tasks[t].res = "raised"
        /\ tasks[u].owner = tasks[t].owner
        /\ tasks[u].pc = "publish"
        /\ \E i \in 1..Len(results) : results[i].service_id = tasks[u].sid
        /\ ~loops[tasks[t].owner].cancel

\* C9: a poll task ends only when stop() has cancelled it; an exception
\* raised during a tick does not end it.
PollLoopEndsOnlyByStop ==
    [][\A l \in LoopIds :
         (LoopAlive(l) /\ ~LoopAlive(l)') => (loops[l].cancel /\ ~running)]_vars

\* C9, reached: a tick failed, and the next tick of the same poll task has
\* dispatched checks.
PolledAgainAfterError ==
    \E l \in LoopIds :
        /\ loops[l].tick = "error"
        /\ loops[l].pc = "gather"
        /\ ~loops[l].cancel

StopEndsThePollLoop ==
    /\ [](~running /\ stop_pc = "idle" =>
            /\ \A l \in LoopIds : ~LoopAlive(l)
            /\ \A t \in TaskIds : InFlight(t) => tasks[t].owner = 0)
    /\ [][/\ (stop_pc = "await" /\ stop_pc' = "idle") => ~LoopAlive(task)
          /\ (~running /\ stop_pc = "idle") =>
               /\ stop_pc' = "idle"
               /\ \A l \in LoopIds : loops'[l].cancel = loops[l].cancel
               /\ \A t \in TaskIds : tasks'[t].cancel = tasks[t].cancel]_vars

\* C11, reached: stop() has returned after a result had been committed; the
\* poll task it cancelled has ended.
StoppedAfterPolling ==
    /\ ~running
    /\ stop_pc = "idle"
    /\ task # 0
    /\ loops[task].pc = "done"
    /\ Len(results) > 0

\* C12: stop() cancels no check that is in flight: a check that has started
\* executing (it holds its slot and has not committed yet) is never ended by
\* a cancellation.
StopSparesRunningChecks ==
    [][\A t \in TaskIds :
         tasks[t].pc \in {"fetch", "check"} => tasks'[t].res # "cancelled"]_vars

\* ---- SpecTick: one poll loop, more due services than slots ----
\* Every service is due; every check terminates, every commit succeeds and
\* nobody stops the scheduler.  The event loop runs every coroutine that is
\* ready, and time passes: each step is weakly fair.
InitTick ==
    /\ now = 0
    /\ services = [s \in ServiceIds |-> NewService("http", MinInterval)]
    /\ results = <<>>
    /\ running = TRUE
    /\ task = 1
    /\ sem = MaxConcurrent
    /\ loops = [l \in LoopIds |->
                   IF l = 1 THEN [NoLoop EXCEPT !.pc = "head"] ELSE NoLoop]
    /\ tasks = [t \in TaskIds |-> IdleTask]
    /\ stop_pc = "idle"
    /\ connections = NoConnections

NextTick ==
    \/ Advance
    \/ \E l \in LoopIds : LoopPoll(l)
    \/ \E l \in LoopIds : LoopGatherReturn(l)
    \/ \E l \in LoopIds : LoopWake(l)
    \/ \E t \in TaskIds : Acquire(t)
    \/ \E t \in TaskIds : Fetch(t)
    \/ \E t \in TaskIds, h \in BOOLEAN : ExecuteCheck(t, h)
    \/ \E t \in TaskIds : Publish(t)

SpecTick ==
    /\ InitTick
    /\ [][NextTick]_vars
    /\ WF_vars(Advance)
    /\ WF_vars(\E l \in LoopIds : LoopPoll(l))
    /\ WF_vars(\E l \in LoopIds : LoopGatherReturn(l))
    /\ WF_vars(\E l \in LoopIds : LoopWake(l))
    /\ WF_vars(\E t \in TaskIds : Acquire(t))
    /\ WF_vars(\E t \in TaskIds : Fetch(t))
    /\ WF_vars(\E t \in TaskIds, h \in BOOLEAN : ExecuteCheck(t, h))
    /\ WF_vars(\E t \in TaskIds : Publish(t))

\* the number of CheckResult rows of service s
ResultsOf(s) ==
    Cardinality({i \in 1..Len(results) : results[i].service_id = s})

\* C13: with more services due in a tick than there are slots, if every
\* check terminates, persistence succeeds and the scheduler is not stopped,
\* the tick eventually completes with exactly one CheckResult appended for
\* every due service, and until then no service has more than one.
EveryDueServiceCheckedOnce ==
    /\ <>(loops[1].tick = "ok" /\ \A s \in ServiceIds : ResultsOf(s) = 1)
    /\ [](loops[1].tick = "" => \A s \in ServiceIds : ResultsOf(s) <= 1)
    /\ [][(loops[1].pc = "gather" /\ loops'[1].pc = "sleep") =>
            \A s \in ServiceIds : ResultsOf(s)' = 1]_vars

\* C13, reached: the tick over more due services than slots has completed
\* and every service has its one result.
TickCompletedWithAllResults ==
    /\ MaxServices > MaxConcurrent
    /\ loops[1].pc = "sleep"
    /\ loops[1].tick = "ok"
    /\ \A s \in ServiceIds : ResultsOf(s) = 1

NoTwoScheduledChecksOfOneService ==
    \A t, u \in TaskIds :
        (/\ t # u
         /\ InFlight(t) /\ tasks[t].owner # 0
         /\ InFlight(u) /\ tasks[u].owner # 0) =>
            tasks[t].sid # tasks[u].sid

\* C15, reached: a poll interval has passed, the scheduled check of a service
\* is still executing, and by its row the service is due.
DueAgainWhileInFlight ==
    \E t \in TaskIds :
        /\ tasks[t].owner # 0
        /\ tasks[t].pc = "check"
        /\ ~tasks[t].cancel
        /\ now >= CheckInterval
        /\ tasks[t].sid \in GetServicesDue(now)

\* ---- SpecManual: manual triggers and reconfiguration around one tick ----
\* Service 1 exists, the other ids do not; the scheduler runs.  Requests
\* POST /services/{id}/check arrive for any id, the service is toggled or
\* deleted, while the poll loop dispatches and gathers.
InitManual ==
    /\ now = 0
    /\ services = [s \in ServiceIds |->
                      IF s = 1 THEN NewService("http", MinInterval)
                      ELSE NoService]
    /\ results = <<>>
    /\ running = TRUE
    /\ task = 1
    /\ sem = MaxConcurrent
    /\ loops = [l \in LoopIds |->
                   IF l = 1 THEN [NoLoop EXCEPT !.pc = "head"] ELSE NoLoop]
    /\ tasks = [t \in TaskIds |-> IdleTask]
    /\ stop_pc = "idle"
    /\ connections = NoConnections

NextManual ==
    \/ \E s \in ServiceIds : RouterRunCheckNow(s)
    \/ \E t \in TaskIds : RouterRespond(t)
    \/ \E s \in ServiceIds, a \in BOOLEAN : ToggleService(s, a)
    \/ \E s \in ServiceIds : DeleteService(s)
    \/ \E l \in LoopIds : LoopPoll(l)
    \/ \E l \in LoopIds : LoopGatherReturn(l)
    \/ CheckStep

SpecManual == InitManual /\ [][NextManual]_vars

\* C16: when a service a poll selected is deleted or made inactive before
\* the execution phase fetches it again, that phase ends there: no checker
\* runs and nothing is published (the coroutine is done), no CheckResult is
\* appended, no service row changes, and the slot is given back.
StaleDispatchDoesNothing ==
    [][\A t \in TaskIds :
         (/\ tasks[t].kind = "sched"
          /\ tasks[t].pc = "fetch"
          /\ tasks'[t].pc # "fetch"
          /\ ~(services[tasks[t].sid].row = "live"
               /\ services[tasks[t].sid].is_active)) =>
           /\ tasks'[t].pc = "done"
           /\ tasks'[t].res =
                IF services[tasks[t].sid].row = "live" THEN "inactive"
                ELSE "notfound"
           /\ results' = results
           /\ services' = services
           /\ sem' = sem + 1]_vars

\* C16, reached: the service was deleted after the poll had dispatched its
\* check; the check has ended without a result and its slot is free.
DispatchedThenDeleted ==
    \E t \in TaskIds :
        /\ tasks[t].kind = "sched"
        /\ tasks[t].pc = "done"
        /\ tasks[t].res = "notfound"
        /\ services[tasks[t].sid].row = "deleted"
        /\ results = <<>>
        /\ sem = MaxConcurrent

AllChecksWithinCapacity ==
    (\E t \in TaskIds :
         tasks[t].kind = "sched" /\ tasks[t].pc \in {"check", "publish"}) =>
        Cardinality({t \in TaskIds : tasks[t].pc \in {"check", "publish"}})
            <= MaxConcurrent

\* C19: when a manual check and a scheduled check of one service run
\* concurrently, the row holds, after each commit, the values of the check
\* that committed.
RowHoldsLastCommit ==
    [][\A t \in TaskIds :
         (/\ tasks[t].pc = "check" /\ tasks'[t].pc = "publish"
          /\ \E u \in TaskIds :
                /\ tasks[u].sid = tasks[t].sid
                /\ tasks[u].pc \in {"check", "publish"}
                /\ (tasks[u].kind = "router") # (tasks[t].kind = "router")) =>
           /\ services'[tasks[t].sid].status = tasks'[t].service.status
           /\ services'[tasks[t].sid].consecutive_failures =
                tasks'[t].service.consecutive_failures
           /\ services'[tasks[t].sid].last_check_at =
                tasks'[t].service.last_check_at]_vars

\* C20: the CheckResult and the changes of the service row are committed
\* together or not at all: a scheduled check that fails before its commit
\* has taken effect leaves the rows of both tables as they were, and a
\* service that was due by its row is still due.
FailedCheckPersistsNothing ==
    [][\A t \in TaskIds :
         (/\ tasks[t].kind = "sched"
          /\ tasks[t].pc = "check"
          /\ ~tasks[t].cancel
          /\ tasks'[t].pc \notin {"check", "publish"}) =>
           /\ results' = results
           /\ services' = services
           /\ tasks[t].sid \in GetServicesDue(now) =>
                tasks[t].sid \in GetServicesDue(now)']_vars

\* C20, reached: the scheduled check of a never-checked service has failed;
\* the service has no CheckResult, its last_check_at is still null and the
\* due rule selects it.
FailedCheckStillDue ==
    \E t \in TaskIds :
        /\ tasks[t].kind = "sched"
        /\ tasks[t].pc = "done"
        /\ tasks[t].res = "raised"
        /\ ResultsOf(tasks[t].sid) = 0
        /\ services[tasks[t].sid].last_check_at = Null
        /\ tasks[t].sid \in GetServicesDue(now)

\* ---- SpecRetry: a service whose type has no checker, under the poll loop ----
\* Service 1 is of type docker (a ServiceType without an entry in CHECKERS),
\* with either interval; service 2 is an http service.  Every coroutine that
\* can run does run, and time passes.
InitRetry ==
    /\ now = 0
    /\ \E i \in Intervals :
          services = [s \in ServiceIds |->
                         IF s = 1 THEN NewService("docker", i)
                         ELSE IF s = 2 THEN NewService("http", MinInterval)
                         ELSE NoService]
    /\ results = <<>>
    /\ running = TRUE
    /\ task = 1
    /\ sem = MaxConcurrent
    /\ loops = [l \in LoopIds |->
                   IF l = 1 THEN [NoLoop EXCEPT !.pc = "head"] ELSE NoLoop]
    /\ tasks = [t \in TaskIds |-> IdleTask]
    /\ stop_pc = "idle"
    /\ connections = NoConnections

NextRetry ==
    \/ Advance
    \/ \E l \in LoopIds : LoopPoll(l)
    \/ \E l \in LoopIds : LoopGatherReturn(l)
    \/ \E l \in LoopIds : LoopWake(l)
    \/ CheckStep

SpecRetry ==
    /\ InitRetry
    /\ [][NextRetry]_vars
    /\ WF_vars(Advance)
    /\ WF_vars(\E l \in LoopIds : LoopPoll(l))
    /\ WF_vars(\E l \in LoopIds : LoopGatherReturn(l))
    /\ WF_vars(\E l \in LoopIds : LoopWake(l))
    /\ WF_vars(CheckStep)

\* a scheduled check of service s is inside execute_check
Attempting(s) ==
    \E t \in TaskIds :
        tasks[t].pc = "check" /\ tasks[t].sid = s /\ tasks[t].kind = "sched"

\* a scheduled check of service s has ended with an exception
AttemptFailed(s) ==
    \E t \in TaskIds :
        /\ tasks[t].pc = "done" /\ tasks[t].res = "raised"
        /\ tasks[t].sid = s /\ tasks[t].kind = "sched"

\* C21: in the scheduled path, once a check of a service whose type has no
\* registered checker was being attempted at an instant T and has failed,
\* no check of that service is attempted before T + interval_seconds.
NoRetryBeforeInterval ==
    \A s \in ServiceIds, T \in 0..MaxTime :
        []((Attempting(s) /\ now = T /\ ~HasChecker(services[s].type)) =>
             [](AttemptFailed(s) =>
                  [](Attempting(s) =>
                       now >= T + services[s].interval_seconds)))

\* ---- SpecEvents: checks of one service with WebSocket clients listening ----
\* Clients connect and subscribe to channel "services"; the service is
\* checked by the poll loop and through the router; the scheduler is stopped.
InitEvents ==
    /\ now = 0
    /\ services = [s \in ServiceIds |->
                      IF s = 1 THEN NewService("http", MinInterval)
                      ELSE NoService]
    /\ results = <<>>
    /\ running = TRUE
    /\ task = 1
    /\ sem = MaxConcurrent
    /\ loops = [l \in LoopIds |->
                   IF l = 1 THEN [NoLoop EXCEPT !.pc = "head"] ELSE NoLoop]
    /\ tasks = [t \in TaskIds |-> IdleTask]
    /\ stop_pc = "idle"
    /\ connections = NoConnections

NextEvents ==
    \/ \E c \in ConnIds : Connect(c)
    \/ \E c \in ConnIds : Subscribe(c)
    \/ \E s \in ServiceIds : RouterRunCheckNow(s)
    \/ \E t \in TaskIds : RouterRespond(t)
    \/ StopBegin
    \/ StopReturn
    \/ \E l \in LoopIds : LoopPoll(l)
    \/ \E l \in LoopIds : LoopGatherReturn(l)
    \/ \E l \in LoopIds : LoopCancelled(l)
    \/ \E t \in TaskIds : CheckCancelled(t)
    \/ CheckStep

SpecEvents == InitEvents /\ [][NextEvents]_vars

\* C22: every check execution that has committed emits, by the time it ends,
\* exactly one check_completed event, followed by one status_changed event
\* if and only if the status it read before the update differs from the
\* status after it: this is what every subscriber still connected has then
\* received.
CommittedCheckEmitsItsEvents ==
    [][\A t \in TaskIds :
         (tasks[t].pc = "publish" /\ tasks'[t].pc # "publish") =>
           \A c \in Subscribers(connections) :
              connections'[c].state = "open" =>
                 connections'[c].received =
                     connections[c].received \o EventsOf(t)]_vars

\* C23: the commit of a check comes before its events.  Every
\* check_completed event a subscriber has received is that of a CheckResult
\* that is in the table, and every status_changed event follows the
\* check_completed event of a check of the same service: no event is
\* published for a check whose result was not persisted.
EventsOnlyAfterCommit ==
    \A c \in ConnIds :
        \A i \in 1..Len(connections[c].received) :
            LET event == connections[c].received[i]
            IN /\ event.type = "service.check_completed" =>
                    \E j \in 1..Len(results) :
                        results[j] = NewCheckResult(event.service_id,
                                                    event.is_healthy,
                                                    event.checked_at)
               /\ event.type = "service.status_changed" =>
                    /\ i > 1
                    /\ connections[c].received[i - 1].type
                           = "service.check_completed"
                    /\ connections[c].received[i - 1].service_id
                           = event.service_id

\* C23, reached: a subscriber has received the check_completed and the
\* status_changed event of a committed check, while another check of the
\* service has raised and left nothing, in the table or with the subscriber.
EventsOfCommittedCheckOnly ==
    \E c \in ConnIds, t \in TaskIds :
        /\ Len(connections[c].received) = 2
        /\ connections[c].received[2].type = "service.status_changed"
        /\ Len(results) = 1
        /\ tasks[t].pc = "done"
        /\ tasks[t].res = "raised"

\* C24: when the send to a subscriber fails during the broadcasts of a
\* check, the check does not fail: nothing of what it committed is undone,
\* its CheckResult is in the table, execute_check returns it (the coroutine
\* ends with "ok"), and every other subscriber receives the events.
FailedDeliveryDoesNotFailCheck ==
    [][\A t \in TaskIds :
         (/\ tasks[t].pc = "publish"
          /\ tasks'[t].pc # "publish"
          /\ \E c \in Subscribers(connections) :
                connections'[c].state = "closed") =>
           /\ results' = results
           /\ services' = services
           /\ \E j \in 1..Len(results) : results[j] = tasks[t].check_result
           /\ tasks'[t].pc = "done"
           /\ tasks'[t].res = "ok"
           /\ \A c \in Subscribers(connections) :
                 connections'[c].state = "open" =>
                    connections'[c].received =
                        connections[c].received \o EventsOf(t)]_vars

\* C24, reached: the send to the first subscriber failed, the second one
\* has received the event, and the router's check has returned its result.
DeliveredToTheOtherSubscriber ==
    \E t \in TaskIds :
        /\ tasks[t].kind = "router"
        /\ tasks[t].pc = "done"
        /\ tasks[t].res = "ok"
        /\ connections[1].state = "closed"
        /\ connections[1].received = <<>>
        /\ Len(connections[2].received) > 0
        /\ Len(results) = 1

\* ---- SpecToggle: a service in any state is toggled and checked ----
\* Service 1 has been checked before: it is in one of the states that checks
\* and toggles leave behind (the status with its count of failures; paused
\* when it was toggled off).
CheckedStates ==
    {<<"unknown", 0>>, <<"healthy", 0>>, <<"degraded", 1>>, <<"degraded", 2>>,
     <<"unhealthy", UnhealthyThreshold>>}

ToggleRows ==
    {[NewService("http", MinInterval) EXCEPT
         !.is_active = a,
         !.status = IF a THEN st[1] ELSE "paused",
         !.consecutive_failures = st[2],
         !.last_check_at = IF st[1] = "unknown" THEN Null ELSE 0,
         !.last_response_time_ms =
             IF st[1] = "unknown" THEN Null ELSE Elapsed] :
       st \in CheckedStates, a \in BOOLEAN}

InitToggle ==
    /\ now = CheckInterval
    /\ \E row \in ToggleRows :
          services = [s \in ServiceIds |-> IF s = 1 THEN row ELSE NoService]
    /\ results = <<>>
    /\ running = TRUE
    /\ task = 1
    /\ sem = MaxConcurrent
    /\ loops = [l \in LoopIds |->
                   IF l = 1 THEN [NoLoop EXCEPT !.pc = "head"] ELSE NoLoop]
    /\ tasks = [t \in TaskIds |-> IdleTask]
    /\ stop_pc = "idle"
    /\ connections = NoConnections

NextToggle ==
    \/ \E s \in ServiceIds, a \in BOOLEAN : ToggleService(s, a)
    \/ \E s \in ServiceIds : RouterRunCheckNow(s)
    \/ \E t \in TaskIds : RouterRespond(t)
    \/ \E l \in LoopIds : LoopPoll(l)
    \/ \E l \in LoopIds : LoopGatherReturn(l)
    \/ CheckStep

SpecToggle == InitToggle /\ [][NextToggle]_vars

\* a check of service s commits in this step
CheckCommits(s) ==
    \E t \in TaskIds :
        tasks[t].sid = s /\ tasks[t].pc = "check" /\ tasks'[t].pc = "publish"

\* C25: toggle_service(id, false) leaves is_active = false and status =
\* paused; toggle_service(id, true) leaves is_active = true and status =
\* unknown, whatever the status was; and the status of an active service
\* stays unknown until a check of it commits (or it is toggled off).
ToggleSetsActiveAndStatus ==
    [][\A s \in ServiceIds :
         /\ \A a \in BOOLEAN :
               ToggleService(s, a) =>
                  /\ services'[s].is_active = a
                  /\ services'[s].status = IF a THEN "unknown" ELSE "paused"
         /\ (/\ Live(s) /\ services[s].is_active
             /\ services[s].status = "unknown"
             /\ services'[s].status # "unknown") =>
               \/ CheckCommits(s)
               \/ ~services'[s].is_active /\ services'[s].status = "paused"]_vars

\* C25, reached: a service that was unhealthy after three failures has been
\* toggled on and is unknown, and no check has completed since.
UnknownAfterReactivation ==
    /\ services[1].is_active
    /\ services[1].status = "unknown"
    /\ services[1].consecutive_failures = UnhealthyThreshold
    /\ results = <<>>

\* C26: while a service stays inactive, no step changes its status, its
\* consecutive_failures or its last_check_at, or appends a CheckResult for
\* it; a check that had passed its is_active test before the toggle
\* committed included.
InactiveServiceLeftAlone ==
    [][\A s \in ServiceIds :
         (Live(s) /\ ~services[s].is_active /\ ~services'[s].is_active) =>
           /\ services'[s].status = services[s].status
           /\ services'[s].consecutive_failures
                  = services[s].consecutive_failures
           /\ services'[s].last_check_at = services[s].last_check_at
           /\ ResultsOf(s)' = ResultsOf(s)]_vars

\* the unhealthy CheckResults of service s since its last healthy one
FailuresSinceHealthy(s) ==
    LET of_s == {i \in 1..Len(results) : results[i].service_id = s}
        healthy == {i \in of_s : results[i].is_healthy}
    IN Cardinality({i \in of_s : \A h \in healthy : i > h})

\* C27: in every reachable state the consecutive_failures of a service is
\* the number of unhealthy CheckResults recorded for it since its most
\* recent healthy one (since its creation if it has none), also after a
\* manual and a scheduled check of the service have overlapped.
\* Stated for the commits made while a manual and a scheduled check of the
\* service overlap: a commit that finds the equation true leaves it true.
FailuresCountTheResults ==
    [][\A t \in TaskIds :
         (/\ tasks[t].pc = "check" /\ tasks'[t].pc = "publish"
          /\ \E u \in TaskIds :
                /\ tasks[u].sid = tasks[t].sid
                /\ tasks[u].pc \in {"check", "publish"}
                /\ (tasks[u].kind = "router") # (tasks[t].kind = "router")
          /\ services[tasks[t].sid].consecutive_failures
                 = FailuresSinceHealthy(tasks[t].sid)) =>
           services'[tasks[t].sid].consecutive_failures
               = FailuresSinceHealthy(tasks[t].sid)']_vars

\* ---- SpecUptime: _calculate_uptime over every short history ----
\* The table holds any history of at most MaxHistory CheckResults of the two
\* services, committed at time 0 or 1 one after the other; the rows of the
\* services are what these checks have left.  The uptime is then computed
\* at any later time, within the window of the results or a day after.
ResultRecords ==
    [service_id : ServiceIds, is_healthy : BOOLEAN, checked_at : 0..1]

Histories ==
    UNION {{h \in [1..n -> ResultRecords] :
               \A i \in 1..n : \A j \in 1..n :
                   i < j => h[i].checked_at <= h[j].checked_at} :
           n \in 0..MaxHistory}

\* the row of service s after the first n results of rs were committed
RECURSIVE ServiceAfter(_, _, _)
ServiceAfter(rs, s, n) ==
    IF n = 0 THEN NewService("http", MinInterval)
    ELSE IF rs[n].service_id # s THEN ServiceAfter(rs, s, n - 1)
    ELSE UpdateServiceStatus(ServiceAfter(rs, s, n - 1), rs[n].is_healthy,
                             rs[n].checked_at,
                             CalculateUptime(SubSeq(rs, 1, n), s,
                                             rs[n].checked_at))

InitUptime ==
    /\ now = 1
    /\ results \in Histories
    /\ services = [s \in ServiceIds |-> ServiceAfter(results, s, Len(results))]
    /\ running = FALSE
    /\ task = 0
    /\ sem = MaxConcurrent
    /\ loops = [l \in LoopIds |-> NoLoop]
    /\ tasks = [t \in TaskIds |-> IdleTask]
    /\ stop_pc = "idle"
    /\ connections = NoConnections

NextUptime ==
    \/ Advance
    \/ AdvanceWindow
    \/ \E s \in ServiceIds : CalculateUptimeCall(s)
    \/ \E t \in TaskIds : UptimeReturn(t)

SpecUptime == InitUptime /\ [][NextUptime]_vars

\* C28: the uptime computation returns 0 when no CheckResult of the service
\* lies in the window (never 100); otherwise it returns
\* 100 * healthy / total over the results in the window, rounded to two
\* decimals (a value in hundredths of a percent, at most half a hundredth
\* away from the quotient), which lies between 0 and 100.
UptimeIsHealthyShareOfWindow ==
    [][\A t \in TaskIds :
         (tasks[t].pc = "idle" /\ tasks'[t].kind = "uptime") =>
           LET window == {i \in 1..Len(results) :
                             /\ results[i].service_id = tasks'[t].sid
                             /\ results[i].checked_at
                                    >= now - UptimeHours * 3600}
               total == Cardinality(window)
               healthy == Cardinality({i \in window : results[i].is_healthy})
               value == tasks'[t].uptime
               diff == value * total - healthy * 100 * 100
           IN IF total = 0 THEN value = 0
              ELSE /\ value \in 0..(100 * 100)
                   /\ 2 * diff <= total
                   /\ 2 * diff >= 0 - total]_vars

\* C28, reached: the uptime of a service that has results, all of them
\* healthy, was computed as 0, because they are older than the window.
ZeroOverEmptyWindow ==
    \E t \in TaskIds :
        /\ tasks[t].kind = "uptime"
        /\ tasks[t].uptime = 0
        /\ \E i \in 1..Len(results) : results[i].service_id = tasks[t].sid
        /\ \A i \in 1..Len(results) :
              results[i].service_id = tasks[t].sid => results[i].is_healthy

\* the rows of service s in the window that begins at since
WindowFrom(s, since) ==
    {i \in 1..Len(results) :
        results[i].service_id = s /\ results[i].checked_at >= since}

\* C29 as stated: two computations of the uptime of a service with no
\* CheckResult appended or deleted in between (none is, in SpecUptime) yield
\* the same value.
UptimeSameWithoutNewResults ==
    \A t, u \in TaskIds :
        (/\ tasks[t].kind = "uptime" /\ tasks[u].kind = "uptime"
         /\ tasks[t].sid = tasks[u].sid) =>
            tasks[t].uptime = tasks[u].uptime

\* C29, amended: two computations of the uptime of a service yield the same
\* value when no CheckResult was appended or deleted and none has left the
\* window in between; and a computation changes no stored row.
UptimeSameOverSameWindow ==
    /\ [](\A t, u \in TaskIds :
            (/\ tasks[t].kind = "uptime" /\ tasks[u].kind = "uptime"
             /\ tasks[t].sid = tasks[u].sid
             /\ WindowFrom(tasks[t].sid, tasks[t].since)
                    = WindowFrom(tasks[u].sid, tasks[u].since)) =>
               tasks[t].uptime = tasks[u].uptime)
    /\ [][(\E t \in TaskIds :
              tasks[t].pc = "idle" /\ tasks'[t].kind = "uptime") =>
            (services' = services /\ results' = results)]_vars

\* C29, reached: the uptime of a service was computed twice at different
\* times over the same rows, and is 50 both times.
ComputedTwiceOverSameWindow ==
    /\ tasks[1].kind = "uptime"
    /\ tasks[2].kind = "uptime"
    /\ tasks[1].sid = tasks[2].sid
    /\ tasks[1].since # tasks[2].since
    /\ tasks[1].uptime = 50 * 100
    /\ tasks[2].uptime = 50 * 100

\* C30: the uptime_percentage a check stores on the service is computed over
\* the persisted history with the check's own CheckResult in it: it is the
\* uptime of the table as the commit leaves it, and after the first check of
\* a service it is 100 if the check was healthy and 0 if it was not.
UptimeCountsOwnResult ==
    [][\A t \in TaskIds :
         (tasks[t].pc = "check" /\ tasks'[t].pc = "publish") =>
           LET s == tasks[t].sid
           IN /\ services'[s].uptime_percentage
                    = CalculateUptime(results', s, now)
              /\ ResultsOf(s) = 0 =>
                    services'[s].uptime_percentage =
                        IF tasks'[t].outcome = "healthy" THEN 100 * 100
                        ELSE 0]_vars

\* C30, reached: the first check of a service was healthy and its uptime is
\* stored as 100.
FullUptimeAfterFirstCheck ==
    \E s \in ServiceIds :
        /\ ResultsOf(s) = 1
        /\ services[s].status = "healthy"
        /\ services[s].uptime_percentage = 100 * 100

\* ---- health_checks.py: the checkers and their registry ----

\* longest response body and expected_body
MaxText == 2

Chars == {"o", "k"}

\* strings are sequences of characters
Texts == UNION {[1..n -> Chars] : n \in 0..MaxText}

\* sub in text
Contains(sub, text) ==
    \E i \in 1..(Len(text) + 1) :
        /\ i + Len(sub) - 1 <= Len(text)
        /\ SubSeq(text, i, i + Len(sub) - 1) = sub

\* targets: a bare host, host:port, and two with a port that is no number
Targets == {<<"h">>, <<"h", ":", "8">>, <<"h", ":">>, <<"h", ":", "x">>}

\* ":" in target
HasColon(target) == \E i \in 1..Len(target) : target[i] = ":"

\* target.rsplit(":", 1)[1]
PortStr(target) ==
    LET last == CHOOSE i \in 1..Len(target) :
                    /\ target[i] = ":"
                    /\ \A j \in (i + 1)..Len(target) : target[j] # ":"
    IN SubSeq(target, last + 1, Len(target))

\* int(port_str) returns (it raises ValueError otherwise)
IsInt(port_str) ==
    /\ port_str # <<>>
    /\ \A i \in 1..Len(port_str) : port_str[i] \in {"8"}

\* "except handler" catches an exception of class exc: CancelledError is a
\* BaseException and no Exception
Handles(handler, exc) ==
    \/ handler = exc
    \/ handler = "Exception" /\ exc # "asyncio.CancelledError"

\* the awaited call raises exc
Raise(exc) == [NoProbe EXCEPT !.kind = "raise", !.exc = exc]

\* check() returns an unhealthy CheckResult with the elapsed time and error
Failed(error) ==
    [NoOutcome EXCEPT !.response_time_ms = "elapsed", !.error = Some(error)]

\* the exception leaves check()
Escapes(exc) == [NoOutcome EXCEPT !.raised = Some(exc)]

\* the expected status a check compares with: config.get("expected_status", 200)
DefaultExpectedStatus == 200

ExpectedStatus(call) ==
    IF call.expected_status = None THEN DefaultExpectedStatus
    ELSE call.expected_status[1]

\* body_ok: "if expected_body and expected_body not in response.text"
BodyOk(call) ==
    ~(/\ call.expected_body # None
      /\ call.expected_body[1] # <<>>
      /\ ~Contains(call.expected_body[1], call.probe.text))

\* the outcome of HTTPChecker.check for a response
HTTPResponseOutcome(call, status_ok, body_ok) ==
    [NoOutcome EXCEPT
        !.is_healthy = status_ok /\ body_ok,
        !.response_time_ms = "elapsed",
        !.status_code = Some(call.probe.status_code),
        !.message = IF ~status_ok THEN Some("Expected status, got")
                    ELSE IF ~body_ok
                    THEN Some("Response body does not contain expected content")
                    ELSE None]

\* HTTPChecker.check with the body never looked at
HTTPCheckIgnoringBody(call) ==
    IF call.probe.kind = "return"
    THEN HTTPResponseOutcome(call,
                             call.probe.status_code = ExpectedStatus(call),
                             TRUE)
    ELSE Failed("Check failed: ")

\* HTTPChecker.check
HTTPCheck(call) ==
    IF call.probe.kind = "return"
    THEN HTTPResponseOutcome(call,
                             call.probe.status_code = ExpectedStatus(call),
                             BodyOk(call))
    ELSE IF Handles("httpx.TimeoutException", call.probe.exc)
    THEN Failed("Request timeout after")
    ELSE IF Handles("httpx.ConnectError", call.probe.exc)
    THEN Failed("Connection failed: ")
    ELSE IF Handles("Exception", call.probe.exc)
    THEN Failed("Check failed: ")
    ELSE Escapes(call.probe.exc)

\* TCPChecker.check
TCPCheck(call) ==
    IF ~HasColon(call.target)
    THEN [NoOutcome EXCEPT
             !.error = Some("Invalid target format. Expected host:port")]
    ELSE IF ~IsInt(PortStr(call.target))
    THEN Failed("Check failed: ")
    ELSE IF call.probe.kind = "return"
    THEN [NoOutcome EXCEPT !.is_healthy = TRUE,
                           !.response_time_ms = "elapsed",
                           !.message = Some("Successfully connected to")]
    ELSE IF Handles("asyncio.TimeoutError", call.probe.exc)
    THEN Failed("Connection timeout after")
    ELSE IF Handles("ConnectionRefusedError", call.probe.exc)
    THEN Failed("Connection refused")
    ELSE IF Handles("Exception", call.probe.exc)
    THEN Failed("Check failed: ")
    ELSE Escapes(call.probe.exc)

\* config.get("warn_days", 30)
DefaultWarnDays == 30

WarnDays(call) ==
    IF call.warn_days = None THEN DefaultWarnDays ELSE call.warn_days[1]

\* SSLChecker.check
SSLCheck(call) ==
    IF HasColon(call.target) /\ ~IsInt(PortStr(call.target))
    THEN Failed("Check failed: ")
    ELSE IF call.probe.kind = "return"
    THEN IF ~call.probe.has_cert
         THEN Failed("Could not retrieve SSL certificate")
         ELSE [NoOutcome EXCEPT
                  !.is_healthy = call.probe.days > WarnDays(call),
                  !.response_time_ms = "elapsed",
                  !.message =
                      IF call.probe.days <= 0
                      THEN Some("Certificate has expired!")
                      ELSE IF call.probe.days <= WarnDays(call)
                      THEN Some("Certificate expires in")
                      ELSE None]
    ELSE IF Handles("ssl.SSLError", call.probe.exc)
    THEN Failed("SSL error: ")
    ELSE IF Handles("Exception", call.probe.exc)
    THEN Failed("Check failed: ")
    ELSE Escapes(call.probe.exc)

\* DNSChecker.check
DNSCheck(call) ==
    IF call.probe.kind = "return"
    THEN LET mismatch == /\ call.expected_ip # None
                         /\ call.expected_ip[1] # ""
                         /\ call.probe.ip # call.expected_ip[1]
         IN [NoOutcome EXCEPT
                !.is_healthy = ~mismatch,
                !.response_time_ms = "elapsed",
                !.message = IF mismatch THEN Some("Expected, got")
                            ELSE Some("Resolved to")]
    ELSE IF Handles("socket.gaierror", call.probe.exc)
    THEN Failed("DNS resolution failed: ")
    ELSE IF Handles("Exception", call.probe.exc)
    THEN Failed("Check failed: ")
    ELSE Escapes(call.probe.exc)

\* PingChecker.check: the ping process has exited with returncode, or
\* waiting for it raised
PingCheck(call) ==
    IF call.probe.kind = "return"
    THEN [NoOutcome EXCEPT
             !.is_healthy = call.probe.returncode = 0,
             !.response_time_ms =
                 IF call.probe.avg # None /\ call.probe.avg[1] # 0
                 THEN "avg" ELSE "elapsed",
             !.message = IF call.probe.returncode = 0
                         THEN Some("Host is reachable")
                         ELSE Some("Host unreachable")]
    ELSE IF Handles("asyncio.TimeoutError", call.probe.exc)
    THEN Failed("Ping timeout after")
    ELSE IF Handles("Exception", call.probe.exc)
    THEN Failed("Check failed: ")
    ELSE Escapes(call.probe.exc)

\* the CHECKERS registry: the class behind each key
CheckerClass(check_type) ==
    CASE check_type \in {"http", "https"} -> "HTTPChecker"
      [] check_type = "tcp" -> "TCPChecker"
      [] check_type = "ssl" -> "SSLChecker"
      [] check_type = "dns" -> "DNSChecker"
      [] check_type = "ping" -> "PingChecker"

\* checker.check(target, config) of the checker registered for the type
Check(call) ==
    CASE CheckerClass(call.check_type) = "HTTPChecker" -> HTTPCheck(call)
      [] CheckerClass(call.check_type) = "TCPChecker" -> TCPCheck(call)
      [] CheckerClass(call.check_type) = "SSLChecker" -> SSLCheck(call)
      [] CheckerClass(call.check_type) = "DNSChecker" -> DNSCheck(call)
      [] CheckerClass(call.check_type) = "PingChecker" -> PingCheck(call)

\* type strings handed to get_checker: the registry keys, the seventh
\* ServiceType, one that is no ServiceType, and two in another case
TypeStrings == ServiceTypes \cup {"ftp", "HTTP", "Ping"}

\* check_type.lower()
Lower(check_type) ==
    CASE check_type = "HTTP" -> "http"
      [] check_type = "Ping" -> "ping"
      [] OTHER -> check_type

\* get_checker that falls back to the HTTP checker
GetCheckerDefaulting(check_type) ==
    IF Lower(check_type) \in CHECKERS
    THEN [NoOutcome EXCEPT !.checker = Some(CheckerClass(Lower(check_type)))]
    ELSE [NoOutcome EXCEPT !.checker = Some("HTTPChecker")]

\* get_checker: the instance of the registered class, or ValueError
GetChecker(check_type) ==
    IF Lower(check_type) \in CHECKERS
    THEN [NoOutcome EXCEPT !.checker = Some(CheckerClass(Lower(check_type)))]
    ELSE Escapes("ValueError")

\* network failures a checker is expected to meet
Failures == {"timeout", "refused", "dns_failure", "tls_error"}

\* the ping process has exited
Exit(returncode, avg) ==
    [NoProbe EXCEPT !.kind = "return", !.returncode = returncode, !.avg = avg]

\* What a network failure looks like to each checker: the exception its
\* library raises (httpx for HTTP, asyncio for TCP, socket and ssl for SSL
\* and DNS); for ping, whose probe is the ping process, the exit code of the
\* process (1 without a reply, 2 for an unknown host), or the timeout of
\* waiting for it.
FailureProbes(checker, failure) ==
    CASE checker = "HTTPChecker" ->
            IF failure = "timeout" THEN {Raise("httpx.TimeoutException")}
            ELSE IF failure = "tls_error"
            THEN {Raise("httpx.ConnectError"), Raise("ssl.SSLError")}
            ELSE {Raise("httpx.ConnectError")}
      [] checker = "TCPChecker" ->
            IF failure = "timeout" THEN {Raise("asyncio.TimeoutError")}
            ELSE IF failure = "refused" THEN {Raise("ConnectionRefusedError")}
            ELSE IF failure = "dns_failure" THEN {Raise("socket.gaierror")}
            ELSE {}
      [] checker = "SSLChecker" ->
            IF failure = "timeout" THEN {Raise("socket.timeout")}
            ELSE IF failure = "refused" THEN {Raise("ConnectionRefusedError")}
            ELSE IF failure = "dns_failure" THEN {Raise("socket.gaierror")}
            ELSE {Raise("ssl.SSLError")}
      [] checker = "DNSChecker" ->
            IF failure \in {"timeout", "dns_failure"}
            THEN {Raise("socket.gaierror")}
            ELSE {}
      [] checker = "PingChecker" ->
            IF failure = "timeout"
            THEN {Exit(1, None), Raise("asyncio.TimeoutError")}
            ELSE IF failure = "dns_failure" THEN {Exit(2, None)}
            ELSE {}

\* what a probe that met no network failure hands back: a response, a
\* connection, a certificate, an address, the exit of ping; or the
\* cancellation of the calling task, or an error of another kind
PlainProbes(checker) ==
    {Raise("asyncio.CancelledError"), Raise("RuntimeError")} \cup
    CASE checker = "HTTPChecker" ->
            {[NoProbe EXCEPT !.kind = "return", !.status_code = c, !.text = x] :
                c \in {200, 500}, x \in Texts}
      [] checker = "TCPChecker" -> {[NoProbe EXCEPT !.kind = "return"]}
      [] checker = "SSLChecker" ->
            {[NoProbe EXCEPT !.kind = "return", !.has_cert = b, !.days = d] :
                b \in BOOLEAN, d \in {0, 10, 30, 31}}
      [] checker = "DNSChecker" ->
            {[NoProbe EXCEPT !.kind = "return", !.ip = a] :
                a \in {"10.0.0.1", "10.0.0.2"}}
      [] checker = "PingChecker" ->
            {Exit(c, a) : c \in {0, 1}, a \in {None, Some(0), Some(12)}}

\* the configurations a checker reads
Configs(checker) ==
    CASE checker = "HTTPChecker" ->
            {[NoCall EXCEPT !.expected_status = e, !.expected_body = b] :
                e \in {None, Some(200), Some(500)},
                b \in {None} \cup {Some(x) : x \in Texts}}
      [] checker = "SSLChecker" ->
            {[NoCall EXCEPT !.warn_days = w] : w \in {None, Some(5)}}
      [] checker = "DNSChecker" ->
            {[NoCall EXCEPT !.expected_ip = a] :
                a \in {None, Some(""), Some("10.0.0.1")}}
      [] OTHER -> {NoCall}

\* the targets a checker parses (the others hand theirs to the library)
TargetsOf(checker) ==
    IF checker \in {"TCPChecker", "SSLChecker"} THEN Targets
    ELSE {<<"h">>}

\* every call of check() considered
Calls ==
    UNION {{[config EXCEPT !.check_type = check_type, !.target = target,
                           !.failure = fp[1], !.probe = fp[2]] :
               config \in Configs(CheckerClass(check_type)),
               target \in TargetsOf(CheckerClass(check_type)),
               fp \in ({""} \X PlainProbes(CheckerClass(check_type))) \cup
                      UNION {{f} \X FailureProbes(CheckerClass(check_type), f) :
                                f \in Failures}} :
           check_type \in CHECKERS}

\* no call of the registry or of a checker is in progress
NoCheckerTask == \A t \in TaskIds : tasks[t].pc = "idle"

\* a call of checker.check(target, config)
CheckCall(call) ==
    /\ NoCheckerTask
    /\ tasks' = [tasks EXCEPT
                    ![Min(FreeTasks(tasks))] =
                        [IdleTask EXCEPT !.pc = "done", !.kind = "check",
                                         !.call = call,
                                         !.check_outcome = Check(call)]]
    /\ UNCHANGED <<now, services, results, running, task, sem, loops, stop_pc,
                   connections>>

\* a call of get_checker(check_type)
GetCheckerCall(check_type) ==
    /\ NoCheckerTask
    /\ tasks' = [tasks EXCEPT
                    ![Min(FreeTasks(tasks))] =
                        [IdleTask EXCEPT
                            !.pc = "done", !.kind = "get_checker",
                            !.call = [NoCall EXCEPT !.check_type = check_type],
                            !.check_outcome = GetChecker(check_type)]]
    /\ UNCHANGED <<now, services, results, running, task, sem, loops, stop_pc,
                   connections>>

\* the caller has taken the outcome
CheckerReturn(t) ==
    /\ tasks[t].kind \in {"check", "get_checker"}
    /\ tasks[t].pc = "done"
    /\ tasks' = [tasks EXCEPT ![t] = IdleTask]
    /\ UNCHANGED <<now, services, results, running, task, sem, loops, stop_pc,
                   connections>>

InitChecker ==
    /\ now = 0
    /\ services = [s \in ServiceIds |-> NoService]
    /\ results = <<>>
    /\ running = FALSE
    /\ task = 0
    /\ sem = MaxConcurrent
    /\ loops = [l \in LoopIds |-> NoLoop]
    /\ tasks = [t \in TaskIds |-> IdleTask]
    /\ stop_pc = "idle"
    /\ connections = NoConnections

NextChecker ==
    \/ \E call \in Calls : CheckCall(call)
    \/ \E check_type \in TypeStrings : GetCheckerCall(check_type)
    \/ \E t \in TaskIds : CheckerReturn(t)

SpecChecker == InitChecker /\ [][NextChecker]_vars

\* C31: for every checker, an expected failure (timeout, connection refused,
\* DNS failure, TLS error, or a TCP target without a port) never leaves
\* check() as an exception: check() returns an outcome with
\* is_healthy = false and an error that is set and not empty, and with
\* response time 0 for the TCP target without a port.
ExpectedFailureIsUnhealthyWithError ==
    \A t \in TaskIds :
        tasks[t].kind = "check" =>
            /\ (\/ tasks[t].call.failure # ""
                \/ /\ tasks[t].call.check_type = "tcp"
                   /\ ~HasColon(tasks[t].call.target)) =>
                   /\ tasks[t].check_outcome.raised = None
                   /\ ~tasks[t].check_outcome.is_healthy
                   /\ tasks[t].check_outcome.error # None
                   /\ tasks[t].check_outcome.error # Some("")
            /\ (/\ tasks[t].call.check_type = "tcp"
                /\ ~HasColon(tasks[t].call.target)) =>
                   tasks[t].check_outcome.response_time_ms = "zero"

\* C32: for an HTTP or HTTPS check that receives a response, the outcome is
\* healthy if and only if the response status equals the expected status
\* (200 when none is configured) and either no expected body is configured
\* or the expected substring occurs in the body; the outcome always carries
\* the status code of the response.
HttpHealthyIffStatusAndBody ==
    \A t \in TaskIds :
        (/\ tasks[t].kind = "check"
         /\ tasks[t].call.check_type \in {"http", "https"}
         /\ tasks[t].call.probe.kind = "return") =>
            LET call == tasks[t].call
                expected == IF call.expected_status = None THEN 200
                            ELSE call.expected_status[1]
            IN /\ tasks[t].check_outcome.is_healthy <=>
                      /\ call.probe.status_code = expected
                      /\ \/ call.expected_body = None
                         \/ Contains(call.expected_body[1], call.probe.text)
               /\ tasks[t].check_outcome.status_code =
                      Some(call.probe.status_code)
               /\ tasks[t].check_outcome.raised = None

\* a response with the expected status 200 whose body lacks the expected
\* substring was judged unhealthy, with status code 200 reported
HttpBodyMismatchUnhealthy ==
    \E t \in TaskIds :
        /\ tasks[t].kind = "check"
        /\ tasks[t].call.check_type = "https"
        /\ tasks[t].call.probe.kind = "return"
        /\ tasks[t].call.probe.status_code = 200
        /\ tasks[t].call.expected_status = None
        /\ tasks[t].call.expected_body = Some(<<"o", "k">>)
        /\ tasks[t].call.probe.text = <<"k", "o">>
        /\ ~tasks[t].check_outcome.is_healthy
        /\ tasks[t].check_outcome.status_code = Some(200)

\* C33: get_checker returns a checker for each of the six types http, https,
\* tcp, ssl, dns and ping, and fails with an error, creating no checker, for
\* every other type string.
GetCheckerOnlyForTheSixTypes ==
    \A t \in TaskIds :
        tasks[t].kind = "get_checker" =>
            IF tasks[t].call.check_type \in
                   {"http", "https", "tcp", "ssl", "dns", "ping"}
            THEN /\ tasks[t].check_outcome.checker # None
                 /\ tasks[t].check_outcome.raised = None
            ELSE /\ tasks[t].check_outcome.checker = None
                 /\ tasks[t].check_outcome.raised # None

\* C33 as the code has it: the type string is compared in lower case.
\* get_checker returns a checker of the registered class for every string
\* whose lower-case form is one of the six types, and fails with ValueError,
\* creating no checker, for every other string.
GetCheckerByLowerCaseType ==
    \A t \in TaskIds :
        tasks[t].kind = "get_checker" =>
            IF Lower(tasks[t].call.check_type) \in
                   {"http", "https", "tcp", "ssl", "dns", "ping"}
            THEN /\ tasks[t].check_outcome.checker =
                        Some(CheckerClass(Lower(tasks[t].call.check_type)))
                 /\ tasks[t].check_outcome.raised = None
            ELSE /\ tasks[t].check_outcome.checker = None
                 /\ tasks[t].check_outcome.raised = Some("ValueError")

\* get_checker was called with a type that has no checker and failed
UnknownTypeRaisedValueError ==
    \E t \in TaskIds :
        /\ tasks[t].kind = "get_checker"
        /\ tasks[t].call.check_type = "ftp"
        /\ tasks[t].check_outcome.raised = Some("ValueError")
        /\ tasks[t].check_outcome.checker = None

InitResults ==
    /\ now = 0
    /\ services = [s \in ServiceIds |->
                      IF s = 1 THEN NewService("http", MinInterval)
                      ELSE NoService]
    /\ results = <<>>
    /\ running = FALSE
    /\ task = 0
    /\ sem = MaxConcurrent
    /\ loops = [l \in LoopIds |-> NoLoop]
    /\ tasks = [t \in TaskIds |-> IdleTask]
    /\ stop_pc = "idle"
    /\ connections = NoConnections

NextResults ==
    \/ AdvanceWindow
    \/ \E s \in ServiceIds : RouterRunCheckNow(s)
    \/ \E t \in TaskIds : RouterRespond(t)
    \/ \E s \in ServiceIds, given \in SUBSET UpdatableFields,
          i \in Intervals, a \in BOOLEAN : UpdateService(s, given, i, a)
    \/ \E s \in ServiceIds, a \in BOOLEAN : ToggleService(s, a)
    \/ \E s \in ServiceIds : DeleteService(s)
    \/ \E days \in CleanupDays : CleanupOldResults(days)
    \/ \E s \in ServiceIds : CalculateUptimeCall(s)
    \/ \E t \in TaskIds : UptimeReturn(t)
    \/ \E t \in TaskIds : Fetch(t)
    \/ \E t \in TaskIds, h \in BOOLEAN : ExecuteCheck(t, h)
    \/ \E t \in TaskIds : ExecuteCheckRaises(t)
    \/ \E t \in TaskIds : Publish(t)

SpecResults == InitResults /\ [][NextResults]_vars

\* coroutine t commits its check in this step
Commits(t) == tasks[t].pc = "check" /\ tasks'[t].pc = "publish"

\* the rows of rs at the positions keep, in their order
RowsAt(rs, keep) ==
    [i \in 1..Cardinality(keep) |->
        rs[CHOOSE k \in keep : Cardinality({j \in keep : j <= k}) = i]]

\* C35: each check execution that commits appends exactly one new
\* CheckResult, its own, after the existing ones; no operation (check,
\* update, toggle, uptime computation) changes an existing CheckResult; and
\* existing results disappear only by delete_service or cleanup_old_results,
\* which leave the remaining ones as they were.
ResultsAppendOnly ==
    [][/\ \A t \in TaskIds :
            Commits(t) =>
                /\ Len(results') = Len(results) + 1
                /\ SubSeq(results', 1, Len(results)) = results
                /\ results'[Len(results')].service_id = tasks[t].sid
                /\ results'[Len(results')].checked_at = now
                /\ results'[Len(results')].is_healthy =
                       (tasks'[t].outcome = "healthy")
       /\ (~\E t \in TaskIds : Commits(t)) =>
              \/ results' = results
              \/ /\ \/ \E s \in ServiceIds : DeleteService(s)
                    \/ \E days \in CleanupDays : CleanupOldResults(days)
                 /\ \E keep \in SUBSET (1..Len(results)) :
                        results' = RowsAt(results, keep)]_vars

\* a day after the first check a second one has appended its result behind
\* that of the first
SecondResultAppended ==
    /\ Len(results) = 2
    /\ results[1] = NewCheckResult(1, TRUE, 0)
    /\ results[2] = NewCheckResult(1, FALSE, UptimeHours * 3600)

\* ---- SpecFrame: reconfiguration around manual checks ----
\* Service 1 exists.  It is updated (any subset of the allowed fields) and
\* toggled while checks triggered through the router execute.
NextFrame ==
    \/ \E s \in ServiceIds, given \in SUBSET UpdatableFields,
          i \in Intervals, a \in BOOLEAN : UpdateService(s, given, i, a)
    \/ \E s \in ServiceIds, a \in BOOLEAN : ToggleService(s, a)
    \/ \E s \in ServiceIds : RouterRunCheckNow(s)
    \/ \E t \in TaskIds : RouterRespond(t)
    \/ \E t \in TaskIds : Fetch(t)
    \/ \E t \in TaskIds, h \in BOOLEAN : ExecuteCheck(t, h)
    \/ \E t \in TaskIds : ExecuteCheckRaises(t)
    \/ \E t \in TaskIds : Publish(t)

SpecFrame == InitResults /\ [][NextFrame]_vars

\* C36: consecutive_failures, last_check_at, last_response_time_ms and
\* uptime_percentage of a service are changed only by a check execution:
\* update_service and toggle_service leave them unchanged (pausing and
\* reactivating does not reset the counter), and update_service changes
\* only the allowed configuration fields that were supplied with a value,
\* never status.
CheckFieldsChangedOnlyByChecks ==
    [][\A s \in ServiceIds :
          LET same(f) == services'[s][f] = services[s][f]
              kept == /\ same("consecutive_failures")
                      /\ same("last_check_at")
                      /\ same("last_response_time_ms")
                      /\ same("uptime_percentage")
          IN services'[s] # services[s] =>
                /\ (\E a \in BOOLEAN : ToggleService(s, a)) =>
                       kept /\ same("interval_seconds") /\ same("type")
                /\ \A given \in SUBSET UpdatableFields :
                       (\E i \in Intervals, a \in BOOLEAN :
                           UpdateService(s, given, i, a)) =>
                           /\ kept
                           /\ same("status")
                           /\ same("type")
                           /\ \A f \in UpdatableFields \ given : same(f)
                /\ (Live(s) /\ services'[s].row = "live" /\ ~kept) =>
                       \E t \in TaskIds : Commits(t) /\ tasks[t].sid = s]_vars

\* the service failed a check, was paused and reactivated: its status is
\* unknown again and the failure is still counted
FailuresKeptThroughReactivation ==
    \E s \in ServiceIds :
        /\ Live(s)
        /\ services[s].is_active
        /\ services[s].status = "unknown"
        /\ services[s].consecutive_failures = 1
        /\ services[s].last_check_at = 0

\* C37: every slot _run_check acquires is released exactly once on every
\* path (the check succeeded, the service was missing or inactive, the
\* checker or the persistence raised, the check was cancelled): free slots
\* plus executions holding a slot always equal the capacity, a coroutine
\* that takes or leaves its slot moves the count of free slots by one, and
\* with no check in progress all slots are free.
EverySlotReleasedOnce ==
    /\ [](sem + Cardinality({t \in TaskIds : Holds(t)}) = MaxConcurrent)
    /\ [][\A t \in TaskIds :
             /\ (Holds(t) /\ ~Holds(t)') => sem' = sem + 1
             /\ (~Holds(t) /\ Holds(t)') => sem' = sem - 1]_vars

\* two checks of one tick are done, one by committing and one by raising,
\* and every slot is free again
SlotsFreeAfterSuccessAndRaise ==
    \E t, u \in TaskIds :
        /\ tasks[t].pc = "done" /\ tasks[t].res = "ok"
        /\ tasks[u].pc = "done" /\ tasks[u].res = "raised"
        /\ tasks[t].owner # 0 /\ tasks[u].owner = tasks[t].owner
        /\ sem = MaxConcurrent

\* C38: in every reachable state, also after overlapping manual and
\* scheduled checks of one service, status and consecutive_failures agree:
\* healthy goes with 0 failures, degraded with 1 or 2, unhealthy with 3 or
\* more.
StatusAgreesWithFailures ==
    \A s \in ServiceIds :
        Live(s) =>
            /\ services[s].status = "healthy" =>
                   services[s].consecutive_failures = 0
            /\ services[s].status = "degraded" =>
                   services[s].consecutive_failures \in {1, 2}
            /\ services[s].status = "unhealthy" =>
                   services[s].consecutive_failures >= 3

\* C39: every service type that create_service accepts has a checker in the
\* registry, so an execute_check of a service created through
\* create_service finds its checker (it never fails with "Unknown check
\* type").
CreatedServiceHasChecker ==
    \A t \in TaskIds :
        tasks[t].pc = "check" => HasChecker(tasks[t].service.type)

====
